---- MODULE Spec2Model ----
(***************************************************************************)
(* eduEngine resource substrate: the slab allocator PoolAllocatorFH        *)
(* (alias FreelistPool2), the versioned, reference counted ResourcePool    *)
(* on top of it, and the clients that drive them.                          *)
(***************************************************************************)
EXTENDS Integers, Naturals, Sequences, FiniteSets, TLC

(***************************************************************************)
(* Bounds of the model                                                     *)
(***************************************************************************)
\* sizeof(T) of the pooled type, in bytes (TypeInfo::size)
ElemSize == 8
\* largest slot count a sequential client lets the slab grow to
MaxSlots == 4
\* payload values 1..MaxValue handed to create / add
MaxValue == 2
\* number of constructor runs after which the sequential slab client stops
MaxConstructions == 9

\* threads of the concurrent create/destroy scenario, and creates per thread
NThreads == 2
Iterations == 2

\* largest use count a ResourcePool client retains a handle to
MaxRefs == 2
\* number of add calls after which the ResourcePool client stops
MaxAdds == 4

\* alignments 2^0 .. 2^MaxAlignLog a pool is constructed with
MaxAlignLog == 8
\* number of distinct aligned addresses the allocator hands out
MaxBlocks == 2

\* GUIDs 1..MaxGuids a ResourcePool client binds
MaxGuids == 2
\* number of add calls after which the client that binds GUIDs stops
MaxGuidAdds == 2

\* resource types 1..NTypes a registry client uses, and the number of add
\* calls after which it stops
NTypes == 2
MaxRegAdds == 2

\* payloads 1..MaxPayload of a forest client, which holds at most MaxNodes nodes
MaxPayload == 4
MaxNodes == 4

\* number of add calls after which the threads sharing a ResourcePool stop
MaxLockAdds == 1

\* number of queue_task calls after which the owner of a ThreadPool stops
MaxTasks == 2

Values == 1..MaxValue

(***************************************************************************)
(* PoolAllocatorFH                                                         *)
(***************************************************************************)
\* const index_type m_index_null = -1
m_index_null == 0 - 1

\* byte offsets of the slots of a buffer of `capacity` bytes
Offsets(capacity) == { k * ElemSize : k \in 0..((capacity \div ElemSize) - 1) }

\* A slot of the buffer. `val` is what the slot's first bytes hold: the
\* object's value for a constructed object ("obj"), the offset of the next
\* free slot for a link ("free"). A slot of a fresh allocation is "raw".
ObjCell(v) == [tag |-> "obj", val |-> v]
FreeCell(next) == [tag |-> "free", val |-> next]
RawCell == [tag |-> "raw", val |-> m_index_null]

\* the object state before any operation
PoolInit ==
    [m_capacity |-> 0, m_free_first |-> m_index_null, m_free_last |-> m_index_null,
     m_pool |-> [i \in {} |-> RawCell], constructions |-> 0, destructions |-> 0]

assert_index(p, index) ==
    /\ index # m_index_null
    /\ index >= 0
    /\ index < p.m_capacity
    /\ index % ElemSize = 0

\* val_at<index_type>(ptr, index): the index stored in the slot's first bytes
val_at(buf, index) == IF index \in DOMAIN buf THEN buf[index].val ELSE m_index_null

\* writes through val_at / placement new; an index outside the buffer trips
\* assert_index and nothing is written
store_at(buf, index, cell) ==
    IF index \in DOMAIN buf THEN [buf EXCEPT ![index] = cell] ELSE buf

\* ptr_at<T>(ptr, index): the address of the slot, static_cast<char*>(ptr) + index
ptr_at(ptr, index) == ptr + index

\* the least alignment the aligned allocator takes: sizeof(void*)
PoolMinAlignment == 8

\* x rounded up to a multiple of a
align_up(x, a) == ((x + a - 1) \div a) * a

\* the addresses aligned_alloc(&ptr, size, alignment) may set ptr to
aligned_alloc(alignment) == { alignment * j : j \in 1..MaxBlocks }

\* smallest power of two that is >= n
RECURSIVE pow2_from(_, _)
pow2_from(c, n) == IF c >= n THEN c ELSE pow2_from(2 * c, n)
next_power_of_two(n) == pow2_from(1, n)

\* the offsets f is called with, in order; fuel stops a walk over a cyclic list
RECURSIVE freelist_walk(_, _, _)
freelist_walk(p, cur_index, fuel) ==
    IF cur_index = m_index_null \/ ~assert_index(p, cur_index) \/ fuel = 0
    THEN << >>
    ELSE << cur_index >> \o freelist_walk(p, val_at(p.m_pool, cur_index), fuel - 1)

freelist_visitor(p) ==
    freelist_walk(p, p.m_free_first, (p.m_capacity \div ElemSize) + 1)

SeqToSet(s) == { s[k] : k \in 1..Len(s) }

count_free(p) == Len(freelist_visitor(p))

capacity(p) == p.m_capacity

\* used_visitor without the marking of the free slots
used_offsets_unmarked(p) == Offsets(p.m_capacity)

\* the slots used_visitor calls f on
used_offsets(p) == Offsets(p.m_capacity) \ SeqToSet(freelist_visitor(p))

\* the loop of used_visitor from `index` on: the offsets f is called at, in order
RECURSIVE used_visit(_, _)
used_visit(p, index) ==
    IF index >= p.m_capacity THEN << >>
    ELSE (IF index \in used_offsets(p) THEN << index >> ELSE << >>)
         \o used_visit(p, index + ElemSize)

\* used_visitor<T>(f): the offsets of the objects f is called with, in order
used_visitor(p) == used_visit(p, 0)

\* resize that allocates the new buffer and forgets to migrate the old slots
resize_no_migration(p, size) ==
    IF size = p.m_capacity THEN p
    ELSE [p EXCEPT !.m_pool = [i \in Offsets(size) |-> RawCell], !.m_capacity = size]

\* resize<T>(size): the fields are switched to the new buffer first, then the
\* slots of the old buffer are migrated (live: move-construct + destroy the
\* source, free: copy the link)
resize(p, size) ==
    IF size = p.m_capacity THEN p
    ELSE
      LET prev_pool == p.m_pool
          prev_capacity == p.m_capacity
          q == [p EXCEPT !.m_pool = [i \in Offsets(size) |-> RawCell],
                         !.m_capacity = size]
          used == Offsets(prev_capacity) \ SeqToSet(freelist_visitor(q))
          migrated == [i \in Offsets(size) |->
                         IF i \in Offsets(prev_capacity)
                         THEN IF i \in used
                              THEN ObjCell(prev_pool[i].val)
                              ELSE FreeCell(val_at(prev_pool, i))
                         ELSE RawCell]
      IN IF prev_capacity > 0
         THEN [q EXCEPT !.m_pool = migrated,
                        !.constructions = @ + Cardinality(used),
                        !.destructions = @ + Cardinality(used)]
         ELSE q

\* resize<T>(size) left by the exception of an aligned_alloc that fails:
\* m_pool has been set to nullptr and m_capacity to size before the call
resize_alloc_fails(p, size) ==
    IF size = p.m_capacity THEN p
    ELSE [p EXCEPT !.m_pool = [i \in {} |-> RawCell], !.m_capacity = size]

\* the loop of expand_freelist: link slot i behind m_free_last
RECURSIVE link_new(_, _, _)
link_new(p, i, new_capacity) ==
    IF i >= new_capacity THEN p
    ELSE link_new([p EXCEPT !.m_pool = IF p.m_free_last # m_index_null
                                          THEN store_at(@, p.m_free_last, FreeCell(i))
                                          ELSE @,
                            !.m_free_last = i],
                  i + ElemSize, new_capacity)

\* expand_freelist that links the new slots from the highest offset down
expand_freelist_descending(p, old_capacity, new_capacity) ==
    IF new_capacity = old_capacity THEN p
    ELSE [p EXCEPT
            !.m_pool = [i \in DOMAIN @ |->
                          IF i >= old_capacity /\ i < new_capacity
                          THEN FreeCell(IF i = old_capacity
                                        THEN m_index_null ELSE i - ElemSize)
                          ELSE @[i]],
            !.m_free_first = new_capacity - ElemSize,
            !.m_free_last = old_capacity]

expand_freelist(p, old_capacity, new_capacity) ==
    IF new_capacity = old_capacity THEN p
    ELSE
      LET p1 == IF p.m_free_first = m_index_null
                THEN [p EXCEPT !.m_free_first = old_capacity] ELSE p
          p2 == link_new(p1, old_capacity, new_capacity)
      IN [p2 EXCEPT !.m_pool = store_at(@, p2.m_free_last, FreeCell(m_index_null))]

\* expand that adds room for one more element
expand_by_one(p) ==
    LET prev_capacity == p.m_capacity
        r == resize(p, p.m_capacity + ElemSize)
    IN expand_freelist(r, prev_capacity, r.m_capacity)

\* expand<T>(): resize to the next power of two of slots, link the new slots
expand(p) ==
    LET prev_capacity == p.m_capacity
        new_capacity == next_power_of_two((p.m_capacity \div ElemSize) + 1) * ElemSize
        r == resize(p, new_capacity)
    IN expand_freelist(r, prev_capacity, r.m_capacity)

\* expand<T>() left by the exception: expand_freelist is not reached
expand_alloc_fails(p) ==
    resize_alloc_fails(p, next_power_of_two((p.m_capacity \div ElemSize) + 1) * ElemSize)

\* create<T>(args) whose grow fails to allocate: the exception leaves create
\* before a slot is picked
create_alloc_fails(p) ==
    IF p.m_free_first = m_index_null THEN expand_alloc_fails(p) ELSE p

\* create, first half: expand if the free-list is empty; the slot to use is
\* then m_free_first
create_select(p) == IF p.m_free_first = m_index_null THEN expand(p) ELSE p

\* create that constructs at the head of the free-list and leaves it linked
create_construct_no_unlink(p, index, v) ==
    [p EXCEPT !.m_pool = store_at(@, index, ObjCell(v)),
              !.constructions = @ + 1]

\* create that unlinks the head without the m_free_first == m_free_last case
create_construct_stale_last(p, index, v) ==
    [p EXCEPT !.m_free_first = val_at(p.m_pool, p.m_free_first),
              !.m_pool = store_at(@, index, ObjCell(v)),
              !.constructions = @ + 1]

\* create, second half: unlink the head of the free-list and construct T(v)
\* at the slot `index` chosen by the first half
create_construct(p, index, v) ==
    LET unlinked == IF p.m_free_first = p.m_free_last
                    THEN [p EXCEPT !.m_free_first = m_index_null,
                                   !.m_free_last = m_index_null]
                    ELSE [p EXCEPT !.m_free_first = val_at(p.m_pool, p.m_free_first)]
    IN [unlinked EXCEPT !.m_pool = store_at(@, index, ObjCell(v)),
                        !.constructions = @ + 1]

\* the offset of the handle create returns
create_ofs(p) == create_select(p).m_free_first

create(p, v) == create_construct(create_select(p), create_ofs(p), v)

\* destroy that always takes the "free-list is empty" branch
destroy_drops_list(p, ofs) ==
    [p EXCEPT !.m_pool = store_at(@, ofs, FreeCell(m_index_null)),
              !.m_free_first = ofs, !.m_free_last = ofs,
              !.destructions = @ + 1]

\* destroy that links the slot at the tail of the free-list
destroy_links_tail(p, ofs) ==
    IF p.m_free_first = m_index_null
    THEN [p EXCEPT !.m_pool = store_at(@, ofs, FreeCell(m_index_null)),
                   !.m_free_first = ofs, !.m_free_last = ofs,
                   !.destructions = @ + 1]
    ELSE [p EXCEPT !.m_pool = store_at(store_at(@, p.m_free_last, FreeCell(ofs)),
                                       ofs, FreeCell(m_index_null)),
                   !.m_free_last = ofs,
                   !.destructions = @ + 1]

destroy(p, ofs) ==
    IF p.m_free_first = m_index_null
    THEN [p EXCEPT !.m_pool = store_at(@, ofs, FreeCell(m_index_null)),
                   !.m_free_first = ofs, !.m_free_last = ofs,
                   !.destructions = @ + 1]
    ELSE [p EXCEPT !.m_pool = store_at(@, ofs, FreeCell(p.m_free_first)),
                   !.m_free_first = ofs,
                   !.destructions = @ + 1]

\* get<T>(handle): the object at handle.ofs
get(p, ofs) == val_at(p.m_pool, ofs)

(***************************************************************************)
(* VersionMap and ResourcePool                                             *)
(***************************************************************************)
\* #define version_null 0
version_null == 0

\* handle_version_type = uint16_t: versions are kept modulo 2^16
VersionMod == 65536

\* Handle<T>{}: ofs = handle_ofs_null, version = 0
NullHandle == [ofs |-> m_index_null, version |-> version_null]

\* the handle (ofs, version) of a client's record of it
HandleOf(r) == [ofs |-> r.ofs, version |-> r.version]

\* std::vector<>::resize(n, fill) on a vector held as a function on 0..size-1
vector_resize(vec, n, fill) ==
    [i \in 0..(n - 1) |-> IF i \in DOMAIN vec THEN vec[i] ELSE fill]

\* the slot number of a handle: h.ofs / sizeof(T)
slot_of(ofs) == ofs \div ElemSize

\* VersionMap::resize(bytes)
versions_resize(versions, bytes) == vector_resize(versions, bytes \div ElemSize, version_null)

\* VersionMap::versionify(h): the map afterwards
versionify(versions, ofs) ==
    IF versions[slot_of(ofs)] = version_null
    THEN [versions EXCEPT ![slot_of(ofs)] = 1]
    ELSE versions

\* VersionMap::versionify(h): the version written into h
versionify_version(versions, ofs) == versionify(versions, ofs)[slot_of(ofs)]

\* validate that compares nothing but the null version
validate_ignores_version(versions, h) ==
    /\ h.version # version_null
    /\ slot_of(h.ofs) \in DOMAIN versions

\* VersionMap::validate(h); a slot outside the map trips the assert
validate(versions, h) ==
    /\ h.version # version_null
    /\ slot_of(h.ofs) \in DOMAIN versions
    /\ h.version = versions[slot_of(h.ofs)]

\* VersionMap::remove that leaves the stored version as it is
version_remove_no_bump(versions, h) == versions

\* VersionMap::remove(h): versions[index]++ on a uint16_t
version_remove(versions, h) ==
    [versions EXCEPT ![slot_of(h.ofs)] = (@ + 1) % VersionMod]

\* Guid::invalid()
GuidInvalid == 0

\* std::unordered_map: map[key] = value
map_assign(map, key, value) ==
    [k \in (DOMAIN map) \cup {key} |-> IF k = key THEN value ELSE map[k]]

\* the members of a ResourcePool before any call
ResourcePoolInit ==
    [m_pool |-> PoolInit,
     m_versions |-> [i \in {} |-> version_null],
     m_ref_counts |-> [i \in {} |-> 0],
     m_guid_map |-> [g \in {} |-> NullHandle],
     m_handle_to_guid |-> [h \in {} |-> GuidInvalid]]

\* ensure_metadata without its size test: the vectors are cut to i + 1
ensure_metadata_always_resizes(rp, ofs) ==
    [rp EXCEPT !.m_ref_counts = vector_resize(@, slot_of(ofs) + 1, 0),
               !.m_versions = versions_resize(@, (slot_of(ofs) + 1) * ElemSize)]

\* ResourcePool::ensure_metadata(h)
ensure_metadata(rp, ofs) ==
    IF slot_of(ofs) >= Cardinality(DOMAIN rp.m_ref_counts)
    THEN [rp EXCEPT !.m_ref_counts = vector_resize(@, slot_of(ofs) + 1, 0),
                    !.m_versions = versions_resize(@, (slot_of(ofs) + 1) * ElemSize)]
    ELSE rp

\* ResourcePool::add(args): the pool afterwards
add(rp, v) ==
    LET ofs == create_ofs(rp.m_pool)
        r1 == [rp EXCEPT !.m_pool = create(rp.m_pool, v)]
        r2 == ensure_metadata(r1, ofs)
        r3 == [r2 EXCEPT !.m_versions = versionify(@, ofs)]
    IN [r3 EXCEPT !.m_ref_counts[slot_of(ofs)] = 1]

\* ResourcePool::add(args): the handle returned
add_handle(rp, v) ==
    [ofs |-> create_ofs(rp.m_pool),
     version |-> add(rp, v).m_versions[slot_of(create_ofs(rp.m_pool))]]

\* ResourcePool::guid_of(h)
guid_of(rp, h) ==
    IF h \in DOMAIN rp.m_handle_to_guid THEN rp.m_handle_to_guid[h] ELSE GuidInvalid

\* ResourcePool::bind_guid(h, guid)
bind_guid(rp, h, guid) ==
    [rp EXCEPT !.m_guid_map = map_assign(@, guid, h),
               !.m_handle_to_guid = map_assign(@, h, guid)]

\* ResourcePool::find_by_guid(guid)
find_by_guid(rp, guid) ==
    IF guid \in DOMAIN rp.m_guid_map THEN rp.m_guid_map[guid] ELSE NullHandle

\* add of a resource under a GUID: add(args), then bind_guid(h, guid) unless
\* guid is the invalid GUID (the add that takes the GUID itself is compiled out)
add_with_guid(rp, guid, v) ==
    IF guid = GuidInvalid THEN add(rp, v)
    ELSE bind_guid(add(rp, v), add_handle(rp, v), guid)

\* ResourcePool::for_each(f): the objects f is called with, in order
for_each(rp) ==
    [k \in 1..Len(used_visitor(rp.m_pool)) |->
        val_at(rp.m_pool.m_pool, used_visitor(rp.m_pool)[k])]

\* ResourcePool::valid(h)
valid(rp, h) == validate(rp.m_versions, h)

\* ResourcePool::get(h): FALSE when it throws "Invalid handle"
get_ok(rp, h) == validate(rp.m_versions, h)

\* ResourcePool::get(h): the object returned when it does not throw
get_value(rp, h) == get(rp.m_pool, h.ofs)

\* ResourcePool::use_count(h)
use_count(rp, h) ==
    IF ~validate(rp.m_versions, h) THEN 0 ELSE rp.m_ref_counts[slot_of(h.ofs)]

\* remove_unlocked without the validity test
remove_unlocked_unchecked(rp, h) ==
    [rp EXCEPT !.m_pool = destroy(@, h.ofs),
               !.m_versions = version_remove(@, h),
               !.m_ref_counts[slot_of(h.ofs)] = 0]

\* ResourcePool::remove_unlocked(h)
remove_unlocked(rp, h) ==
    IF ~validate(rp.m_versions, h) THEN rp
    ELSE [rp EXCEPT !.m_pool = destroy(@, h.ofs),
                    !.m_versions = version_remove(@, h),
                    !.m_ref_counts[slot_of(h.ofs)] = 0]

\* ResourcePool::remove(h)
remove(rp, h) == remove_unlocked(rp, h)

\* ResourcePool::retain(h)
retain(rp, h) ==
    IF ~validate(rp.m_versions, h) THEN rp
    ELSE [rp EXCEPT !.m_ref_counts[slot_of(h.ofs)] = @ + 1]

\* release that never removes the object
release_never_removes(rp, h) ==
    IF ~validate(rp.m_versions, h) THEN rp
    ELSE [rp EXCEPT !.m_ref_counts[slot_of(h.ofs)] = @ - 1]

\* ResourcePool::release(h); the count of a valid handle is at least 1, so
\* --count does not wrap below 0
release(rp, h) ==
    IF ~validate(rp.m_versions, h) THEN rp
    ELSE LET r1 == [rp EXCEPT !.m_ref_counts[slot_of(h.ofs)] = @ - 1]
         IN IF r1.m_ref_counts[slot_of(h.ofs)] = 0 THEN remove_unlocked(r1, h) ELSE r1

\* a release that hands the handle whose count reached 0 to the public remove
release_callee_remove(h) == "remove"

\* the member function release calls with the handle whose count reached 0
release_callee(h) == "remove_unlocked"

\* whether the call op(h) goes on, under the pool mutex, to call into m_pool:
\* add (create), for_each (used_visitor), get of a valid handle (get), and
\* the removal of a valid handle by remove or by the last release (destroy)
calls_m_pool(rp, op, h) ==
    CASE op \in {"add", "for_each"} -> TRUE
      [] op \in {"get", "remove"} -> validate(rp.m_versions, h)
      [] op = "release" -> validate(rp.m_versions, h) /\ rp.m_ref_counts[slot_of(h.ofs)] = 1
      [] OTHER -> FALSE

\* the ResourcePool after the call op(h), add storing v
rp_after(rp, op, h, v) ==
    CASE op = "add" -> add(rp, v)
      [] op = "remove" -> remove(rp, h)
      [] op = "retain" -> retain(rp, h)
      [] op = "release" -> release(rp, h)
      [] OTHER -> rp

(***************************************************************************)
(* ResourceRegistry: `pools` maps a type to its ResourcePool               *)
(***************************************************************************)
\* get_pool<T>() throws "Resource type not registered"
get_pool_throws(pools, T) == T \notin DOMAIN pools

\* a lookup that inserts a pool for a type it does not find
get_pool_inserting(pools, T) ==
    IF T \notin DOMAIN pools THEN map_assign(pools, T, ResourcePoolInit) ELSE pools

\* get_pool<T>(): the map after the lookup; pools.find inserts nothing
get_pool(pools, T) == pools

\* get_or_create_pool<T>(): the map after the call
get_or_create_pool(pools, T) ==
    IF T \notin DOMAIN pools THEN map_assign(pools, T, ResourcePoolInit) ELSE pools

\* ResourceRegistry::add<T>(args): the map afterwards, and the handle returned
registry_add(pools, T, v) ==
    [get_or_create_pool(pools, T) EXCEPT ![T] = add(@, v)]
registry_add_handle(pools, T, v) == add_handle(get_or_create_pool(pools, T)[T], v)

\* members that forward to get_pool<T>()->f(...): the map afterwards
registry_remove(pools, T, h) ==
    IF get_pool_throws(pools, T) THEN get_pool(pools, T)
    ELSE [get_pool(pools, T) EXCEPT ![T] = remove(@, h)]
registry_retain(pools, T, h) ==
    IF get_pool_throws(pools, T) THEN get_pool(pools, T)
    ELSE [get_pool(pools, T) EXCEPT ![T] = retain(@, h)]
registry_release(pools, T, h) ==
    IF get_pool_throws(pools, T) THEN get_pool(pools, T)
    ELSE [get_pool(pools, T) EXCEPT ![T] = release(@, h)]
registry_bind_guid(pools, T, h, g) ==
    IF get_pool_throws(pools, T) THEN get_pool(pools, T)
    ELSE [get_pool(pools, T) EXCEPT ![T] = bind_guid(@, h, g)]
\* get, use_count, valid, for_all and find_by_guid change nothing in the pool
registry_read(pools, T) == get_pool(pools, T)

(***************************************************************************)
(* VecTree: `nodes` is the vector of TreeNode, in pre-order. Positions are *)
(* counted from 1 here (the source counts from 0); distances are the same. *)
(***************************************************************************)
\* #define VecTree_NullIndex -1
VecTree_NullIndex == 0 - 1

\* TreeNodeType{ .m_payload = payload }
TreeNode(payload) ==
    [m_nbr_children |-> 0, m_branch_stride |-> 1, m_parent_ofs |-> 0, m_payload |-> payload]

\* find_node_index(payload): the first node with the payload
find_node_index(nodes, payload) ==
    IF \E i \in 1..Len(nodes) : nodes[i].m_payload = payload
    THEN CHOOSE i \in 1..Len(nodes) :
           /\ nodes[i].m_payload = payload
           /\ \A j \in 1..(i - 1) : nodes[j].m_payload # payload
    ELSE VecTree_NullIndex

\* contains(payload)
contains(nodes, payload) == find_node_index(nodes, payload) # VecTree_NullIndex

\* std::vector::insert(begin + pos, node), std::vector::erase(first, last)
vec_insert(nodes, pos, node) ==
    SubSeq(nodes, 1, pos - 1) \o << node >> \o SubSeq(nodes, pos, Len(nodes))
vec_erase(nodes, first, last) ==
    SubSeq(nodes, 1, first - 1) \o SubSeq(nodes, last + 1, Len(nodes))

\* where a loop that walks back from `from` and breaks at a node with
\* m_parent_ofs == 0 stops (the front of the vector when there is none)
stop_backward(nodes, from) ==
    IF \E j \in 1..from : nodes[j].m_parent_ofs = 0
    THEN CHOOSE j \in 1..from :
           /\ nodes[j].m_parent_ofs = 0
           /\ \A k \in (j + 1)..from : nodes[k].m_parent_ofs # 0
    ELSE 1

\* where a loop that walks forward from `from` and breaks at a node with
\* m_parent_ofs == 0 stops (one past the end when there is none)
stop_forward(nodes, from) ==
    IF \E j \in from..Len(nodes) : nodes[j].m_parent_ofs = 0
    THEN CHOOSE j \in from..Len(nodes) :
           /\ nodes[j].m_parent_ofs = 0
           /\ \A k \in from..(j - 1) : nodes[k].m_parent_ofs # 0
    ELSE Len(nodes) + 1

\* insert_as_root(payload)
insert_as_root(nodes, payload) == Append(nodes, TreeNode(payload))

\* insert that leaves the strides of the ancestors as they are
insert_no_stride_update(nodes, payload, parent_payload) ==
    LET parent_index == find_node_index(nodes, parent_payload) IN
    IF parent_index = VecTree_NullIndex THEN nodes
    ELSE vec_insert([nodes EXCEPT ![parent_index].m_nbr_children = @ + 1],
                    parent_index + 1, [TreeNode(payload) EXCEPT !.m_parent_ofs = 1])

\* insert that leaves the parent's children count as it was
insert_no_children_update(nodes, payload, parent_payload) ==
    IF find_node_index(nodes, parent_payload) = VecTree_NullIndex THEN nodes
    ELSE LET parent_index == find_node_index(nodes, parent_payload)
             first == stop_backward(nodes, parent_index)
             next_root == stop_forward(nodes, parent_index + 1)
             updated == [k \in 1..Len(nodes) |->
                 IF k >= first /\ k <= parent_index
                 THEN [nodes[k] EXCEPT
                         !.m_branch_stride = IF @ > parent_index - k THEN @ + 1 ELSE @]
                 ELSE IF k > parent_index /\ k < next_root
                 THEN [nodes[k] EXCEPT
                         !.m_parent_ofs = IF @ >= k - parent_index THEN @ + 1 ELSE @]
                 ELSE nodes[k]]
         IN vec_insert(updated, parent_index + 1, [TreeNode(payload) EXCEPT !.m_parent_ofs = 1])

\* insert that falls back to insert_as_root when the parent is missing
insert_missing_parent_as_root(nodes, payload, parent_payload) ==
    IF find_node_index(nodes, parent_payload) = VecTree_NullIndex
    THEN insert_as_root(nodes, payload)
    ELSE LET parent_index == find_node_index(nodes, parent_payload)
             first == stop_backward(nodes, parent_index)
             next_root == stop_forward(nodes, parent_index + 1)
             updated == [k \in 1..Len(nodes) |->
                 IF k >= first /\ k <= parent_index
                 THEN [nodes[k] EXCEPT
                         !.m_branch_stride = IF @ > parent_index - k THEN @ + 1 ELSE @,
                         !.m_nbr_children = IF k = parent_index THEN @ + 1 ELSE @]
                 ELSE IF k > parent_index /\ k < next_root
                 THEN [nodes[k] EXCEPT
                         !.m_parent_ofs = IF @ >= k - parent_index THEN @ + 1 ELSE @]
                 ELSE nodes[k]]
         IN vec_insert(updated, parent_index + 1, [TreeNode(payload) EXCEPT !.m_parent_ofs = 1])

\* insert that puts the new node after the parent's branch (as last child)
insert_as_last_child(nodes, payload, parent_payload) ==
    IF find_node_index(nodes, parent_payload) = VecTree_NullIndex THEN nodes
    ELSE LET parent_index == find_node_index(nodes, parent_payload)
             at == parent_index + nodes[parent_index].m_branch_stride
             first == stop_backward(nodes, parent_index)
             next_root == stop_forward(nodes, parent_index + 1)
             updated == [k \in 1..Len(nodes) |->
                 IF k >= first /\ k <= parent_index
                 THEN [nodes[k] EXCEPT
                         !.m_branch_stride = IF @ > parent_index - k THEN @ + 1 ELSE @,
                         !.m_nbr_children = IF k = parent_index THEN @ + 1 ELSE @]
                 ELSE IF k >= at /\ k < next_root
                 THEN [nodes[k] EXCEPT !.m_parent_ofs = @ + 1]
                 ELSE nodes[k]]
         IN vec_insert(updated, at, [TreeNode(payload) EXCEPT !.m_parent_ofs = at - parent_index])

\* insert(payload, parent_payload): the vector afterwards
insert(nodes, payload, parent_payload) ==
    LET parent_index == find_node_index(nodes, parent_payload) IN
    IF parent_index = VecTree_NullIndex THEN nodes
    ELSE
      LET first == stop_backward(nodes, parent_index)
          next_root == stop_forward(nodes, parent_index + 1)
          updated == [k \in 1..Len(nodes) |->
              IF k >= first /\ k <= parent_index
              THEN [nodes[k] EXCEPT
                      !.m_branch_stride = IF @ > parent_index - k THEN @ + 1 ELSE @,
                      !.m_nbr_children = IF k = parent_index THEN @ + 1 ELSE @]
              ELSE IF k > parent_index /\ k < next_root
              THEN [nodes[k] EXCEPT
                      !.m_parent_ofs = IF @ >= k - parent_index THEN @ + 1 ELSE @]
              ELSE nodes[k]]
      IN vec_insert(updated, parent_index + 1, [TreeNode(payload) EXCEPT !.m_parent_ofs = 1])

\* insert(payload, parent_payload): the value returned
insert_result(nodes, payload, parent_payload) == contains(nodes, parent_payload)

\* erase_branch_at_index without the decrement of the parent's children count
erase_branch_at_index_keeps_children(nodes, node_index) ==
    LET branch_stride == nodes[node_index].m_branch_stride
        parent == node_index - nodes[node_index].m_parent_ofs
        first == stop_backward(nodes, parent)
        next_root == stop_forward(nodes, node_index + branch_stride)
        updated == [k \in 1..Len(nodes) |->
            IF k >= first /\ k <= parent
            THEN [nodes[k] EXCEPT
                    !.m_branch_stride = IF @ > parent - k THEN @ - branch_stride ELSE @]
            ELSE IF k >= node_index + branch_stride /\ k < next_root
            THEN [nodes[k] EXCEPT
                    !.m_parent_ofs = IF @ >= k - parent THEN @ - branch_stride ELSE @]
            ELSE nodes[k]]
    IN vec_erase(updated, node_index, node_index + branch_stride - 1)

\* erase_branch_at_index without step 2 (the parent offsets of the trailing
\* nodes are left as they were)
erase_branch_at_index_no_trailing(nodes, node_index) ==
    LET branch_stride == nodes[node_index].m_branch_stride
        parent == node_index - nodes[node_index].m_parent_ofs
        first == stop_backward(nodes, parent)
        updated == [k \in 1..Len(nodes) |->
            IF k >= first /\ k <= parent
            THEN [nodes[k] EXCEPT
                    !.m_branch_stride = IF @ > parent - k THEN @ - branch_stride ELSE @,
                    !.m_nbr_children = IF k = parent THEN @ - 1 ELSE @]
            ELSE nodes[k]]
    IN vec_erase(updated, node_index, node_index + branch_stride - 1)

\* erase_branch_at_index(node_index): the vector afterwards
erase_branch_at_index(nodes, node_index) ==
    LET branch_stride == nodes[node_index].m_branch_stride
        parent == node_index - nodes[node_index].m_parent_ofs
        first == stop_backward(nodes, parent)
        next_root == stop_forward(nodes, node_index + branch_stride)
        updated == [k \in 1..Len(nodes) |->
            IF k >= first /\ k <= parent
            THEN [nodes[k] EXCEPT
                    !.m_branch_stride = IF @ > parent - k THEN @ - branch_stride ELSE @,
                    !.m_nbr_children = IF k = parent THEN @ - 1 ELSE @]
            ELSE IF k >= node_index + branch_stride /\ k < next_root
            THEN [nodes[k] EXCEPT
                    !.m_parent_ofs = IF @ >= k - parent THEN @ - branch_stride ELSE @]
            ELSE nodes[k]]
    IN vec_erase(updated, node_index, node_index + branch_stride - 1)

\* erase_branch(payload): the vector afterwards, and the value returned
erase_branch(nodes, payload) ==
    IF find_node_index(nodes, payload) = VecTree_NullIndex THEN nodes
    ELSE erase_branch_at_index(nodes, find_node_index(nodes, payload))
erase_branch_result(nodes, payload) == contains(nodes, payload)

\* the loop of reparent / unparent with every buffered node inserted under
\* the front of the buffer
RECURSIVE reinsert_under_front(_, _, _)
reinsert_under_front(nodes, branch, i) ==
    IF i > Len(branch) THEN nodes
    ELSE reinsert_under_front(insert(nodes, branch[i].m_payload, branch[1].m_payload),
                              branch, i + 1)

\* the loop of reparent / unparent: the buffered nodes i.. are inserted under
\* the payload of their buffered parent
RECURSIVE reinsert(_, _, _)
reinsert(nodes, branch, i) ==
    IF i > Len(branch) THEN nodes
    ELSE reinsert(insert(nodes, branch[i].m_payload,
                         branch[i - branch[i].m_parent_ofs].m_payload),
                  branch, i + 1)

\* a buffer that takes only the node at node_index
branch_of_front_only(nodes, node_index) == SubSeq(nodes, node_index, node_index)

\* the branch of the node at node_index, as moved to the temporary buffer
branch_of(nodes, node_index) ==
    SubSeq(nodes, node_index, node_index + nodes[node_index].m_branch_stride - 1)

\* reparent(payload, parent_payload)
reparent(nodes, payload, parent_payload) ==
    LET node_index == find_node_index(nodes, payload)
        branch == branch_of(nodes, node_index)
        erased == erase_branch_at_index(nodes, node_index)
    IN reinsert(insert(erased, branch[1].m_payload, parent_payload), branch, 2)

\* unparent that puts the new root in front of the existing trees
unparent_root_first(nodes, payload) ==
    LET node_index == find_node_index(nodes, payload)
        branch == branch_of(nodes, node_index)
        erased == erase_branch_at_index(nodes, node_index)
    IN reinsert(<< TreeNode(branch[1].m_payload) >> \o erased, branch, 2)

\* unparent(payload)
unparent(nodes, payload) ==
    LET node_index == find_node_index(nodes, payload)
        branch == branch_of(nodes, node_index)
        erased == erase_branch_at_index(nodes, node_index)
    IN reinsert(insert_as_root(erased, branch[1].m_payload), branch, 2)

\* ascend(start_index, func): the positions func is called with, in order
RECURSIVE ascend(_, _)
ascend(nodes, node_index) ==
    IF nodes[node_index].m_parent_ofs = 0 THEN << node_index >>
    ELSE << node_index >> \o ascend(nodes, node_index - nodes[node_index].m_parent_ofs)

\* is_descendant_of that does not skip the start payload
is_descendant_of_including_self(nodes, payload1, payload2) ==
    \E k \in 1..Len(ascend(nodes, find_node_index(nodes, payload1))) :
        nodes[ascend(nodes, find_node_index(nodes, payload1))[k]].m_payload = payload2

\* is_descendant_of(payload1, payload2)
is_descendant_of(nodes, payload1, payload2) ==
    \E k \in 1..Len(ascend(nodes, find_node_index(nodes, payload1))) :
        /\ nodes[ascend(nodes, find_node_index(nodes, payload1))[k]].m_payload # payload1
        /\ nodes[ascend(nodes, find_node_index(nodes, payload1))[k]].m_payload = payload2

\* NoPayload stands for "no parent" and for a null payload pointer
NoPayload == 0

\* one call of a traversal's callback: func(payload, index)
Visit(payload, index) == [payload |-> payload, index |-> index]

\* traverse_depthfirst(start_index, func): the calls made, in order
traverse_depthfirst_at(nodes, start_index) ==
    IF nodes = << >> THEN << >>
    ELSE [k \in 1..nodes[start_index].m_branch_stride |->
            Visit(nodes[start_index + (k - 1)].m_payload, start_index + (k - 1))]

\* traverse_depthfirst(start_payload, func)
traverse_depthfirst_from(nodes, start_payload) ==
    traverse_depthfirst_at(nodes, find_node_index(nodes, start_payload))

\* the whole-forest loop that steps to the next position instead of the next
\* root
RECURSIVE traverse_depthfirst_step_one(_, _)
traverse_depthfirst_step_one(nodes, i) ==
    IF i > Len(nodes) THEN << >>
    ELSE traverse_depthfirst_at(nodes, i) \o traverse_depthfirst_step_one(nodes, i + 1)

\* traverse_depthfirst(func): the loop over the roots, from position i on
RECURSIVE traverse_depthfirst_all(_, _)
traverse_depthfirst_all(nodes, i) ==
    IF i > Len(nodes) THEN << >>
    ELSE traverse_depthfirst_at(nodes, i)
            \o traverse_depthfirst_all(nodes, i + nodes[i].m_branch_stride)

\* the loop over the children of a node: the positions of the remaining
\* children, the next one being at child
RECURSIVE child_indices(_, _, _)
child_indices(nodes, child, remaining) ==
    IF remaining <= 0 THEN << >>
    ELSE << child >> \o child_indices(nodes, child + nodes[child].m_branch_stride,
                                      remaining - 1)

\* the loop of the breadth-first traversal with the children put in front of
\* the queue
RECURSIVE breadthfirst_loop_stack(_, _)
breadthfirst_loop_stack(nodes, q) ==
    IF q = << >> THEN << >>
    ELSE << Visit(nodes[Head(q)].m_payload, Head(q)) >>
            \o breadthfirst_loop_stack(nodes,
                    child_indices(nodes, Head(q) + 1, nodes[Head(q)].m_nbr_children)
                        \o Tail(q))

\* the while loop of the breadth-first traversal with queue q: the calls made
RECURSIVE breadthfirst_loop(_, _)
breadthfirst_loop(nodes, q) ==
    IF q = << >> THEN << >>
    ELSE << Visit(nodes[Head(q)].m_payload, Head(q)) >>
            \o breadthfirst_loop(nodes,
                    Tail(q) \o child_indices(nodes, Head(q) + 1,
                                             nodes[Head(q)].m_nbr_children))

\* traverse_breadthfirst(start_index, func)
traverse_breadthfirst_at(nodes, start_index) ==
    IF nodes = << >> THEN << >> ELSE breadthfirst_loop(nodes, << start_index >>)

\* traverse_breadthfirst(start_payload, func)
traverse_breadthfirst_from(nodes, start_payload) ==
    traverse_breadthfirst_at(nodes, find_node_index(nodes, start_payload))

\* traverse_breadthfirst(func): the loop over the roots, from position i on
RECURSIVE traverse_breadthfirst_all(_, _)
traverse_breadthfirst_all(nodes, i) ==
    IF i > Len(nodes) THEN << >>
    ELSE traverse_breadthfirst_at(nodes, i)
            \o traverse_breadthfirst_all(nodes, i + nodes[i].m_branch_stride)

\* one call of the progressive traversal's callback: func(&node, &parent,
\* node_index, parent_index), parent being NoPayload for nullptr
Step(payload, parent, index) == [payload |-> payload, parent |-> parent, index |-> index]

\* the calls made for the node at node_index without the call for a root
progressive_calls_no_root(nodes, node_index) ==
    [k \in 1..nodes[node_index].m_nbr_children |->
          Step(nodes[child_indices(nodes, node_index + 1,
                                   nodes[node_index].m_nbr_children)[k]].m_payload,
               nodes[node_index].m_payload,
               child_indices(nodes, node_index + 1, nodes[node_index].m_nbr_children)[k])]

\* the calls made for the node at node_index: the node itself when it is a
\* root, then each of its children
progressive_calls(nodes, node_index) ==
    (IF nodes[node_index].m_parent_ofs = 0
     THEN << Step(nodes[node_index].m_payload, NoPayload, node_index) >>
     ELSE << >>)
    \o [k \in 1..nodes[node_index].m_nbr_children |->
          Step(nodes[child_indices(nodes, node_index + 1,
                                   nodes[node_index].m_nbr_children)[k]].m_payload,
               nodes[node_index].m_payload,
               child_indices(nodes, node_index + 1, nodes[node_index].m_nbr_children)[k])]

\* traverse_progressive(start_index, func): the calls of iterations i.. of
\* the loop over the branch
RECURSIVE traverse_progressive_at(_, _, _)
traverse_progressive_at(nodes, start_index, i) ==
    IF i >= nodes[start_index].m_branch_stride THEN << >>
    ELSE progressive_calls(nodes, start_index + i)
            \o traverse_progressive_at(nodes, start_index, i + 1)

\* traverse_progressive(func): the loop over the roots, from position i on
RECURSIVE traverse_progressive_all(_, _)
traverse_progressive_all(nodes, i) ==
    IF i > Len(nodes) THEN << >>
    ELSE traverse_progressive_at(nodes, i, 0)
            \o traverse_progressive_all(nodes, i + nodes[i].m_branch_stride)

\* one call of the levelled traversal's callback: func(payload, index, level)
LevelVisit(payload, index, level) == [payload |-> payload, index |-> index, level |-> level]

\* child_stack of the node popped as top: its children, first child first,
\* one level below it
child_stack(nodes, top) ==
    [k \in 1..nodes[top.index].m_nbr_children |->
        [index |-> child_indices(nodes, top.index + 1, nodes[top.index].m_nbr_children)[k],
         level |-> top.level + 1]]

\* a sequence back to front (rbegin .. rend)
reversed(s) == [k \in 1..Len(s) |-> s[Len(s) + 1 - k]]

\* the while loop of the levelled traversal with the children pushed first
\* child first
RECURSIVE depthfirst_level_loop_unreversed(_, _)
depthfirst_level_loop_unreversed(nodes, stack) ==
    IF stack = << >> THEN << >>
    ELSE LET top == stack[Len(stack)]
         IN << LevelVisit(nodes[top.index].m_payload, top.index, top.level) >>
              \o depthfirst_level_loop_unreversed(nodes,
                    SubSeq(stack, 1, Len(stack) - 1) \o child_stack(nodes, top))

\* the while loop of the levelled traversal with the given stack (its back
\* is the last element): the calls made
RECURSIVE depthfirst_level_loop(_, _)
depthfirst_level_loop(nodes, stack) ==
    IF stack = << >> THEN << >>
    ELSE LET top == stack[Len(stack)]
         IN << LevelVisit(nodes[top.index].m_payload, top.index, top.level) >>
              \o depthfirst_level_loop(nodes,
                    SubSeq(stack, 1, Len(stack) - 1) \o reversed(child_stack(nodes, top)))

\* traverse_depthfirst(start_index, func) with a func that takes the level
traverse_depthfirst_level_at(nodes, start_index) ==
    IF nodes = << >> THEN << >>
    ELSE depthfirst_level_loop(nodes, << [index |-> start_index, level |-> 0] >>)

\* traverse_depthfirst(start_payload, func) with a func that takes the level
traverse_depthfirst_level_from(nodes, start_payload) ==
    traverse_depthfirst_level_at(nodes, find_node_index(nodes, start_payload))

\* traverse_depthfirst(func) with a func that takes the level: the loop over
\* the roots, from position i on
RECURSIVE traverse_depthfirst_level_all(_, _)
traverse_depthfirst_level_all(nodes, i) ==
    IF i > Len(nodes) THEN << >>
    ELSE traverse_depthfirst_level_at(nodes, i)
            \o traverse_depthfirst_level_all(nodes, i + nodes[i].m_branch_stride)

\* is_last_sibling(index)
is_last_sibling(nodes, index) ==
    IF nodes[index].m_parent_ofs = 0
    THEN \/ index + nodes[index].m_branch_stride > Len(nodes)
         \/ nodes[index + nodes[index].m_branch_stride].m_parent_ofs = 0
    ELSE index + nodes[index].m_branch_stride
            >= (index - nodes[index].m_parent_ofs)
                  + nodes[index - nodes[index].m_parent_ofs].m_branch_stride

\* is_last_sibling(payload)
is_last_sibling_of(nodes, payload) == is_last_sibling(nodes, find_node_index(nodes, payload))

(***************************************************************************)
(* State                                                                   *)
(***************************************************************************)
VARIABLES
    pool,        \* the PoolAllocatorFH object (with MoveTest's static counters)
    live,        \* handles held by the clients: [ofs, value, owner]
    free_stack,  \* sequential client: offsets destroyed and not yet reused, latest first
    last,        \* sequential client: the latest call and what it returned
    m_mutex,     \* PoolAllocatorFH::m_mutex: the thread inside the pool, or NoThread
    pc,          \* per worker thread: where it is in its lambda
    index,       \* per worker thread: the local `index` of a create in progress
    iter,        \* per worker thread: the loop counter i of its create loop
    rp,          \* the ResourcePool<T> object
    issued,      \* the handles add has returned, each with the value stored
    alive,       \* issued handle -> the use count its owners expect, while not removed
    called,      \* the latest ResourcePool call: [op, h]
    m_pool_alignment,  \* PoolAllocatorFH::m_pool_alignment
    base,        \* the address m_pool points to, 0 for nullptr
    pools,       \* ResourceRegistry::pools: type -> its ResourcePool
    reg_handles, \* per type: the handles add<T> has returned to the client
    reg_called,  \* the latest ResourceRegistry call: [op, type, h, error, result]
    nodes,       \* VecTree::nodes
    tree_parent, \* payload in the forest -> the payload it was put under, or NoPayload
    tree_called, \* the latest VecTree call: [op, payload, parent, result]
    tree_visited, \* the calls the latest traversal made to its callback, in order
    rp_mutex,    \* ResourcePool::m_mutex: the thread that owns it, or NoThread
    rp_pc,       \* per client thread of the ResourcePool: where it is in its call
    rp_op,       \* per client thread of the ResourcePool: the call it is in, [op, h]
    workers,     \* ThreadPool::workers: per worker thread, where it is in its lambda
    task_queue,  \* ThreadPool::task_queue
    queue_mutex, \* ThreadPool::queue_mutex: the worker that owns it, or NoThread
    stop,        \* ThreadPool::stop
    task,        \* per worker thread: the local `task` it popped, or NoTask
    tp_pc,       \* the thread that owns the ThreadPool: where it is
    tp_runs,     \* per task queued: the number of times a worker has started it
    tp_finished  \* the tasks a worker has run to the end

slab_vars == << pool, live, free_stack, last >>
thread_vars == << m_mutex, pc, index, iter >>
rp_vars == << rp, issued, alive, called >>
align_vars == << m_pool_alignment, base >>
\* the state of the scenarios other than the slab, thread and ResourcePool ones
reg_vars == << pools, reg_handles, reg_called >>
tree_vars == << nodes, tree_parent, tree_called, tree_visited >>
lock_vars == << rp_mutex, rp_pc, rp_op >>
tp_vars == << workers, task_queue, queue_mutex, stop, task, tp_pc, tp_runs, tp_finished >>
aux_vars == << align_vars, reg_vars, tree_vars, lock_vars, tp_vars >>
vars == << pool, live, free_stack, last, m_mutex, pc, index, iter,
           rp, issued, alive, called, m_pool_alignment, base,
           pools, reg_handles, reg_called, nodes, tree_parent, tree_called,
           tree_visited, rp_mutex, rp_pc, rp_op,
           workers, task_queue, queue_mutex, stop, task, tp_pc, tp_runs, tp_finished >>

\* m_mutex when no thread owns it
NoThread == 0

\* the client of the sequential scenarios
MainThread == NoThread

LastInit == [op |-> "init", ofs |-> m_index_null, grew |-> FALSE, reused |-> FALSE]

Threads == 1..NThreads

\* the resource types of the registry client (std::type_index values)
Types == 1..NTypes

\* the payloads of the forest client
Payloads == 1..MaxPayload

\* a VecTree call and what it returned
TreeCall(op, payload, parent, result) ==
    [op |-> op, payload |-> payload, parent |-> parent, result |-> result]

\* a registry call and what came of it
RegCall(op, T, h, error, result) ==
    [op |-> op, type |-> T, h |-> h, error |-> error, result |-> result]

Init ==
    /\ pool = PoolInit
    /\ live = {}
    /\ free_stack = << >>
    /\ last = LastInit
    /\ m_mutex = NoThread
    /\ pc = [t \in Threads |-> "create"]
    /\ index = [t \in Threads |-> m_index_null]
    /\ iter = [t \in Threads |-> 0]
    /\ rp = ResourcePoolInit
    /\ issued = {}
    /\ alive = [h \in {} |-> 0]
    /\ called = [op |-> "init", h |-> NullHandle]
    /\ m_pool_alignment = align_up(PoolMinAlignment, PoolMinAlignment)
    /\ base = 0
    /\ pools = [T \in {} |-> ResourcePoolInit]
    /\ reg_handles = [T \in Types |-> {}]
    /\ reg_called = RegCall("init", 0, NullHandle, "none", 0)
    /\ nodes = << >>
    /\ tree_parent = [x \in {} |-> NoPayload]
    /\ tree_called = TreeCall("init", NoPayload, NoPayload, TRUE)
    /\ tree_visited = << >>
    /\ rp_mutex = NoThread
    /\ rp_pc = [t \in Threads |-> "idle"]
    /\ rp_op = [t \in Threads |-> [op |-> "none", h |-> NullHandle]]
    /\ workers = << >>
    /\ task_queue = << >>
    /\ queue_mutex = NoThread
    /\ stop = FALSE
    /\ task = << >>
    /\ tp_pc = "none"
    /\ tp_runs = << >>
    /\ tp_finished = {}

RemoveFromSeq(s, x) == SelectSeq(s, LAMBDA y : y # x)

(***************************************************************************)
(* A sequential client of one PoolAllocatorFH                              *)
(***************************************************************************)
\* pool.create<MoveTest>(v): what it does to the pool and to the client's records
CreateCall(v) ==
    /\ pool.constructions < MaxConstructions
    /\ \/ pool.m_free_first # m_index_null
       \/ next_power_of_two((pool.m_capacity \div ElemSize) + 1) <= MaxSlots
    /\ pool' = create(pool, v)
    /\ live' = live \cup { [ofs |-> create_ofs(pool), value |-> v, owner |-> MainThread] }
    /\ free_stack' = RemoveFromSeq(free_stack, create_ofs(pool))
    /\ last' = [op |-> "create", ofs |-> create_ofs(pool),
                grew |-> (pool.m_free_first = m_index_null),
                reused |-> (create_ofs(pool) \in SeqToSet(free_stack))]

\* pool.destroy(h) for a handle h of a live object
DestroyCall(h) ==
    /\ h \in live
    /\ pool' = destroy(pool, h.ofs)
    /\ live' = live \ {h}
    /\ free_stack' = << h.ofs >> \o free_stack
    /\ last' = [op |-> "destroy", ofs |-> h.ofs, grew |-> FALSE, reused |-> FALSE]

\* pool.create<MoveTest>(v) on the fixture's pool
Create(v) ==
    /\ CreateCall(v)
    /\ UNCHANGED << thread_vars, rp_vars, aux_vars >>

\* pool.destroy(h) on the fixture's pool
Destroy(h) ==
    /\ DestroyCall(h)
    /\ UNCHANGED << thread_vars, rp_vars, aux_vars >>

Next ==
    \/ \E v \in Values : Create(v)
    \/ \E h \in live : Destroy(h)

Spec == Init /\ [][Next]_vars

(***************************************************************************)
(* A sequential client of a pool it constructs with an alignment of its     *)
(* choice; the allocator returns any address that is a multiple of it       *)
(***************************************************************************)
Alignments == { 2^k : k \in 0..MaxAlignLog }

\* the state outside this scenario
outside_align == << thread_vars, rp_vars, reg_vars, tree_vars, lock_vars, tp_vars >>

\* PoolAllocatorFH pool(TypeInfo::create<T>(), alignment)
A_Construct(alignment) ==
    /\ last = LastInit
    /\ m_pool_alignment' = align_up(alignment, PoolMinAlignment)
    /\ last' = [LastInit EXCEPT !.op = "construct"]
    /\ UNCHANGED << pool, live, free_stack, base, outside_align >>

\* pool.create<T>(v); a create that grows the pool leaves m_pool at the
\* address aligned_alloc returned
A_Create(v) ==
    /\ last # LastInit
    /\ CreateCall(v)
    /\ IF pool.m_free_first = m_index_null
       THEN base' \in aligned_alloc(m_pool_alignment)
       ELSE base' = base
    /\ UNCHANGED << m_pool_alignment, outside_align >>

\* pool.destroy(h)
A_Destroy(h) ==
    /\ DestroyCall(h)
    /\ UNCHANGED << align_vars, outside_align >>

NextAlign ==
    \/ \E alignment \in Alignments : A_Construct(alignment)
    \/ \E v \in Values : A_Create(v)
    \/ \E h \in live : A_Destroy(h)

SpecAlign == Init /\ [][NextAlign]_vars

(***************************************************************************)
(* A sequential client of a pool whose allocator may run out of memory;    *)
(* the client stops at the first create that fails                          *)
(***************************************************************************)
\* pool.create<MoveTest>(v) that succeeds
F_Create(v) ==
    /\ last.op # "create_failed"
    /\ Create(v)

\* pool.create<MoveTest>(v) that has to grow while aligned_alloc fails
F_CreateFails(v) ==
    /\ last.op # "create_failed"
    /\ pool.m_free_first = m_index_null
    /\ pool' = create_alloc_fails(pool)
    /\ last' = [op |-> "create_failed", ofs |-> m_index_null, grew |-> FALSE, reused |-> FALSE]
    /\ UNCHANGED << live, free_stack, thread_vars, rp_vars, aux_vars >>

\* pool.destroy(h)
F_Destroy(h) ==
    /\ last.op # "create_failed"
    /\ Destroy(h)

NextAlloc ==
    \/ \E v \in Values : F_Create(v)
    \/ \E v \in Values : F_CreateFails(v)
    \/ \E h \in live : F_Destroy(h)

SpecAlloc == Init /\ [][NextAlloc]_vars

(***************************************************************************)
(* Worker threads on one pool: each creates Iterations objects, then        *)
(* destroys its own handles in the order it got them                        *)
(***************************************************************************)
\* a lock_guard that does not wait for the owner to leave
lock_guard_no_exclusion(owner, t) == TRUE

\* std::lock_guard lock(m_mutex): thread t gets past it when no other thread
\* owns the (recursive) mutex
lock_guard(owner, t) == owner = NoThread \/ owner = t

OwnHandles(t) == { h \in live : h.owner = t }

\* the element of the thread's `handles` vector the destroy loop is at
NextToDestroy(t) ==
    CHOOSE h \in OwnHandles(t) : \A g \in OwnHandles(t) : h.value <= g.value

\* create, lines 217-226: take the mutex, expand if the free-list is empty,
\* pick the head of the free-list
T_CreateSelect(t) ==
    /\ pc[t] = "create"
    /\ lock_guard(m_mutex, t)
    /\ m_mutex' = t
    /\ pool' = create_select(pool)
    /\ index' = [index EXCEPT ![t] = create_select(pool).m_free_first]
    /\ pc' = [pc EXCEPT ![t] = "create_construct"]
    /\ UNCHANGED << live, free_stack, last, iter, rp_vars, aux_vars >>

\* create, lines 228-242: unlink, construct MoveTest(i), return the handle,
\* leave the mutex; the thread pushes the handle and advances its loop
T_CreateConstruct(t) ==
    /\ pc[t] = "create_construct"
    /\ pool' = create_construct(pool, index[t], iter[t])
    /\ live' = live \cup { [ofs |-> index[t], value |-> iter[t], owner |-> t] }
    /\ m_mutex' = NoThread
    /\ index' = [index EXCEPT ![t] = m_index_null]
    /\ iter' = [iter EXCEPT ![t] = @ + 1]
    /\ pc' = [pc EXCEPT ![t] = IF iter[t] + 1 < Iterations THEN "create" ELSE "destroy"]
    /\ UNCHANGED << free_stack, last, rp_vars, aux_vars >>

\* destroy, lines 245-266, under the mutex from entry to return: run the
\* destructor and link the slot at the head of the free-list
T_Destroy(t) ==
    /\ pc[t] = "destroy"
    /\ OwnHandles(t) # {}
    /\ lock_guard(m_mutex, t)
    /\ LET h == NextToDestroy(t) IN
         /\ pool' = destroy(pool, h.ofs)
         /\ live' = live \ {h}
         /\ pc' = [pc EXCEPT ![t] = IF OwnHandles(t) = {h} THEN "done" ELSE "destroy"]
    /\ UNCHANGED << free_stack, last, m_mutex, index, iter, rp_vars, aux_vars >>

NextThreads ==
    \/ \E t \in Threads : T_CreateSelect(t)
    \/ \E t \in Threads : T_CreateConstruct(t)
    \/ \E t \in Threads : T_Destroy(t)

SpecThreads == Init /\ [][NextThreads]_vars

(***************************************************************************)
(* A sequential client of one ResourcePool: it keeps every handle it was   *)
(* given and may pass any of them, stale or not, or the null handle        *)
(***************************************************************************)
\* the handles the client passes to the pool
HandleInputs == { HandleOf(r) : r \in issued } \cup { NullHandle }

\* the client's records of handle h
RecordsOf(h) == { r \in DOMAIN alive : HandleOf(r) = h }

\* function f without the arguments in S
Without(f, S) == [x \in (DOMAIN f) \ S |-> f[x]]

\* the value the client stores with its next add: the serial number of the add
NextValue == Cardinality(issued) + 1

\* pool.add(v), for a client that does not let the slab grow past max_slots
AddCall(v, max_slots) ==
    /\ \/ rp.m_pool.m_free_first # m_index_null
       \/ next_power_of_two((rp.m_pool.m_capacity \div ElemSize) + 1) <= max_slots
    /\ LET h == add_handle(rp, v)
           r == [ofs |-> h.ofs, version |-> h.version, value |-> v]
       IN /\ rp' = add(rp, v)
          /\ issued' = issued \cup {r}
          /\ alive' = [x \in (DOMAIN alive) \cup {r} |-> IF x = r THEN 1 ELSE alive[x]]
          /\ called' = [op |-> "add", h |-> h]
    /\ UNCHANGED << slab_vars, thread_vars, aux_vars >>

\* pool.add(NextValue), at most MaxAdds times
Add ==
    /\ Cardinality(issued) < MaxAdds
    /\ AddCall(NextValue, MaxSlots)

\* pool.remove(h)
Remove(h) ==
    /\ rp' = remove(rp, h)
    /\ called' = [op |-> "remove", h |-> h]
    /\ alive' = Without(alive, RecordsOf(h))
    /\ UNCHANGED << issued, slab_vars, thread_vars, aux_vars >>

\* pool.retain(h)
Retain(h) ==
    /\ \A r \in RecordsOf(h) : alive[r] < MaxRefs
    /\ rp' = retain(rp, h)
    /\ called' = [op |-> "retain", h |-> h]
    /\ alive' = [x \in DOMAIN alive |-> IF HandleOf(x) = h THEN alive[x] + 1 ELSE alive[x]]
    /\ UNCHANGED << issued, slab_vars, thread_vars, aux_vars >>

\* pool.release(h)
Release(h) ==
    /\ rp' = release(rp, h)
    /\ called' = [op |-> "release", h |-> h]
    /\ alive' = [x \in { y \in DOMAIN alive : HandleOf(y) # h \/ alive[y] > 1 } |->
                   IF HandleOf(x) = h THEN alive[x] - 1 ELSE alive[x]]
    /\ UNCHANGED << issued, slab_vars, thread_vars, aux_vars >>

NextPool ==
    \/ Add
    \/ \E h \in HandleInputs : Remove(h)
    \/ \E h \in HandleInputs : Retain(h)
    \/ \E h \in HandleInputs : Release(h)

SpecPool == Init /\ [][NextPool]_vars

(***************************************************************************)
(* A client that churns one slot: it keeps the first handle it was given    *)
(* and otherwise adds an object and removes it again, over and over         *)
(***************************************************************************)
\* pool.add(NextValue) while the client holds no live object; the pool stays
\* at one slot. The client stops once the version counter has gone round.
ChurnAdd ==
    /\ DOMAIN alive = {}
    /\ rp.m_pool.constructions <= VersionMod
    /\ AddCall(NextValue, 1)

\* pool.remove(h) of the live object; the client forgets the handle unless
\* it is the first one it was given
ChurnRemove(h) ==
    /\ RecordsOf(h) # {}
    /\ rp' = remove(rp, h)
    /\ called' = [op |-> "remove", h |-> h]
    /\ alive' = Without(alive, RecordsOf(h))
    /\ issued' = { r \in issued : r.value = 1 }
    /\ UNCHANGED << slab_vars, thread_vars, aux_vars >>

NextChurn ==
    \/ ChurnAdd
    \/ \E h \in HandleInputs : ChurnRemove(h)

SpecChurn == Init /\ [][NextChurn]_vars

(***************************************************************************)
(* A client of one ResourcePool that gives its resources GUIDs             *)
(***************************************************************************)
Guids == 1..MaxGuids

\* h = pool.add(NextValue); pool.bind_guid(h, guid) when guid is not invalid
G_Add(guid) ==
    /\ Cardinality(issued) < MaxGuidAdds
    /\ \/ rp.m_pool.m_free_first # m_index_null
       \/ next_power_of_two((rp.m_pool.m_capacity \div ElemSize) + 1) <= MaxSlots
    /\ LET h == add_handle(rp, NextValue)
           r == [ofs |-> h.ofs, version |-> h.version, value |-> NextValue]
       IN /\ rp' = add_with_guid(rp, guid, NextValue)
          /\ issued' = issued \cup {r}
          /\ alive' = [x \in (DOMAIN alive) \cup {r} |-> IF x = r THEN 1 ELSE alive[x]]
          /\ called' = [op |-> "add", h |-> h, guid |-> guid]
    /\ UNCHANGED << slab_vars, thread_vars, aux_vars >>

\* pool.bind_guid(h, guid) with the handle of a resource the client holds
G_BindGuid(h, guid) ==
    /\ RecordsOf(h) # {}
    /\ rp' = bind_guid(rp, h, guid)
    /\ called' = [op |-> "bind_guid", h |-> h, guid |-> guid]
    /\ UNCHANGED << issued, alive, slab_vars, thread_vars, aux_vars >>

NextGuid ==
    \/ \E guid \in Guids \cup {GuidInvalid} : G_Add(guid)
    \/ \E h \in HandleInputs : \E guid \in Guids : G_BindGuid(h, guid)
    \/ \E h \in HandleInputs : Remove(h)
    \/ \E h \in HandleInputs : Release(h)

SpecGuid == Init /\ [][NextGuid]_vars

(***************************************************************************)
(* A client of one ResourceRegistry with NTypes resource types; it calls    *)
(* any member for any type, registered or not                               *)
(***************************************************************************)
outside_registry == << slab_vars, thread_vars, rp_vars, align_vars, tree_vars, lock_vars, tp_vars >>

\* the handles the client passes for type T
RegHandleInputs(T) == reg_handles[T] \cup { NullHandle }

\* the value the client stores with its next add<T>
RegValue(T) == 10 * T + Cardinality(reg_handles[T])

\* what a forwarded call fails with: an unknown type, or nothing
RegError(T) == IF get_pool_throws(pools, T) THEN "TypeNotRegistered" ELSE "none"

\* registry.add<T>(RegValue(T))
R_Add(T) ==
    /\ Cardinality(UNION { reg_handles[U] \X {U} : U \in Types }) < MaxRegAdds
    /\ pools' = registry_add(pools, T, RegValue(T))
    /\ reg_handles' = [reg_handles EXCEPT ![T] = @ \cup { registry_add_handle(pools, T, RegValue(T)) }]
    /\ reg_called' = RegCall("add", T, registry_add_handle(pools, T, RegValue(T)), "none", RegValue(T))
    /\ UNCHANGED outside_registry

\* registry.get<T>(h): throws for an unknown type and for an invalid handle
R_Get(T, h) ==
    /\ pools' = registry_read(pools, T)
    /\ reg_called' =
         IF get_pool_throws(pools, T) THEN RegCall("get", T, h, "TypeNotRegistered", 0)
         ELSE IF ~get_ok(pools[T], h) THEN RegCall("get", T, h, "InvalidHandle", 0)
         ELSE RegCall("get", T, h, "none", get_value(pools[T], h))
    /\ UNCHANGED << reg_handles, outside_registry >>

\* registry.remove<T>(h)
R_Remove(T, h) ==
    /\ pools' = registry_remove(pools, T, h)
    /\ reg_called' = RegCall("remove", T, h, RegError(T), 0)
    /\ UNCHANGED << reg_handles, outside_registry >>

\* registry.retain<T>(h)
R_Retain(T, h) ==
    /\ get_pool_throws(pools, T) \/ use_count(pools[T], h) < MaxRefs
    /\ pools' = registry_retain(pools, T, h)
    /\ reg_called' = RegCall("retain", T, h, RegError(T), 0)
    /\ UNCHANGED << reg_handles, outside_registry >>

\* registry.release<T>(h)
R_Release(T, h) ==
    /\ pools' = registry_release(pools, T, h)
    /\ reg_called' = RegCall("release", T, h, RegError(T), 0)
    /\ UNCHANGED << reg_handles, outside_registry >>

\* registry.use_count<T>(h)
R_UseCount(T, h) ==
    /\ pools' = registry_read(pools, T)
    /\ reg_called' = RegCall("use_count", T, h, RegError(T),
                             IF get_pool_throws(pools, T) THEN 0 ELSE use_count(pools[T], h))
    /\ UNCHANGED << reg_handles, outside_registry >>

\* registry.valid<T>(h)
R_Valid(T, h) ==
    /\ pools' = registry_read(pools, T)
    /\ reg_called' = RegCall("valid", T, h, RegError(T),
                             IF get_pool_throws(pools, T) THEN 0
                             ELSE IF valid(pools[T], h) THEN 1 ELSE 0)
    /\ UNCHANGED << reg_handles, outside_registry >>

\* registry.for_all<T>(f): the result is the number of objects f was given
R_ForAll(T) ==
    /\ pools' = registry_read(pools, T)
    /\ reg_called' = RegCall("for_all", T, NullHandle, RegError(T),
                             IF get_pool_throws(pools, T) THEN 0 ELSE Len(for_each(pools[T])))
    /\ UNCHANGED << reg_handles, outside_registry >>

\* registry.find_by_guid<T>(guid): the result is the offset of the handle found
R_FindByGuid(T, guid) ==
    /\ pools' = registry_read(pools, T)
    /\ reg_called' = RegCall("find_by_guid", T, NullHandle, RegError(T),
                             IF get_pool_throws(pools, T) THEN 0
                             ELSE find_by_guid(pools[T], guid).ofs)
    /\ UNCHANGED << reg_handles, outside_registry >>

NextRegistry ==
    \/ \E T \in Types : R_Add(T)
    \/ \E T \in Types : \E h \in RegHandleInputs(T) : R_Get(T, h)
    \/ \E T \in Types : \E h \in RegHandleInputs(T) : R_Remove(T, h)
    \/ \E T \in Types : \E h \in RegHandleInputs(T) : R_Retain(T, h)
    \/ \E T \in Types : \E h \in RegHandleInputs(T) : R_Release(T, h)
    \/ \E T \in Types : \E h \in RegHandleInputs(T) : R_UseCount(T, h)
    \/ \E T \in Types : \E h \in RegHandleInputs(T) : R_Valid(T, h)
    \/ \E T \in Types : R_ForAll(T)
    \/ \E T \in Types : \E guid \in Guids : R_FindByGuid(T, guid)

SpecRegistry == Init /\ [][NextRegistry]_vars

(***************************************************************************)
(* A client of one VecTree with unique payloads; it keeps, per payload,    *)
(* the payload it has put it under                                          *)
(***************************************************************************)
outside_tree == << slab_vars, thread_vars, rp_vars, align_vars, reg_vars, lock_vars, tp_vars >>

\* the payloads above x in the client's records
RECURSIVE AncestorsOf(_, _)
AncestorsOf(tp, x) ==
    IF tp[x] = NoPayload THEN {} ELSE {tp[x]} \cup AncestorsOf(tp, tp[x])

\* the payloads below x in the client's records
DescendantsOf(tp, x) == { y \in DOMAIN tp : x \in AncestorsOf(tp, y) }

\* tree.insert_as_root(payload) of a payload not in the forest
V_InsertAsRoot(payload) ==
    /\ Len(nodes) < MaxNodes
    /\ ~contains(nodes, payload)
    /\ nodes' = insert_as_root(nodes, payload)
    /\ tree_parent' = map_assign(tree_parent, payload, NoPayload)
    /\ tree_called' = TreeCall("insert_as_root", payload, NoPayload, TRUE)
    /\ tree_visited' = << >>
    /\ UNCHANGED outside_tree

\* tree.insert(payload, parent_payload) of a payload not in the forest; the
\* parent may be missing
V_Insert(payload, parent_payload) ==
    /\ Len(nodes) < MaxNodes
    /\ ~contains(nodes, payload)
    /\ nodes' = insert(nodes, payload, parent_payload)
    /\ tree_parent' = IF insert_result(nodes, payload, parent_payload)
                      THEN map_assign(tree_parent, payload, parent_payload)
                      ELSE tree_parent
    /\ tree_called' = TreeCall("insert", payload, parent_payload,
                               insert_result(nodes, payload, parent_payload))
    /\ tree_visited' = << >>
    /\ UNCHANGED outside_tree

\* tree.erase_branch(payload); the payload may be missing
V_EraseBranch(payload) ==
    /\ nodes' = erase_branch(nodes, payload)
    /\ tree_parent' = Without(tree_parent, {payload} \cup DescendantsOf(tree_parent, payload))
    /\ tree_called' = TreeCall("erase_branch", payload, NoPayload,
                               erase_branch_result(nodes, payload))
    /\ tree_visited' = << >>
    /\ UNCHANGED outside_tree

\* tree.reparent(payload, parent_payload): both are in the forest and the
\* new parent is neither the node nor one of its descendants
V_Reparent(payload, parent_payload) ==
    /\ contains(nodes, payload)
    /\ contains(nodes, parent_payload)
    /\ payload # parent_payload
    /\ ~is_descendant_of(nodes, parent_payload, payload)
    /\ nodes' = reparent(nodes, payload, parent_payload)
    /\ tree_parent' = [tree_parent EXCEPT ![payload] = parent_payload]
    /\ tree_called' = TreeCall("reparent", payload, parent_payload, TRUE)
    /\ tree_visited' = << >>
    /\ UNCHANGED outside_tree

\* tree.unparent(payload) of a payload in the forest
V_Unparent(payload) ==
    /\ contains(nodes, payload)
    /\ nodes' = unparent(nodes, payload)
    /\ tree_parent' = [tree_parent EXCEPT ![payload] = NoPayload]
    /\ tree_called' = TreeCall("unparent", payload, NoPayload, TRUE)
    /\ tree_visited' = << >>
    /\ UNCHANGED outside_tree

NextForest ==
    \/ \E payload \in Payloads : V_InsertAsRoot(payload)
    \/ \E payload \in Payloads : \E parent_payload \in Payloads : V_Insert(payload, parent_payload)
    \/ \E payload \in Payloads : V_EraseBranch(payload)
    \/ \E payload \in Payloads : \E parent_payload \in Payloads : V_Reparent(payload, parent_payload)
    \/ \E payload \in Payloads : V_Unparent(payload)

SpecForest == Init /\ [][NextForest]_vars

(***************************************************************************)
(* A client that moves a node away and back (SpecRoundTrip)                *)
(***************************************************************************)
\* tree.reparent(payload, parent_payload) followed by
\* tree.reparent(payload, original parent), for a payload that has a parent
V_ReparentRoundTrip(payload, parent_payload) ==
    /\ contains(nodes, payload)
    /\ contains(nodes, parent_payload)
    /\ payload # parent_payload
    /\ ~is_descendant_of(nodes, parent_payload, payload)
    /\ nodes[find_node_index(nodes, payload)].m_parent_ofs # 0
    /\ LET node_index == find_node_index(nodes, payload)
           original == nodes[node_index - nodes[node_index].m_parent_ofs].m_payload
       IN \E moved \in {reparent(nodes, payload, parent_payload)} :
              nodes' = reparent(moved, payload, original)
    /\ tree_parent' = tree_parent
    /\ tree_called' = TreeCall("reparent_back", payload, parent_payload, TRUE)
    /\ tree_visited' = << >>
    /\ UNCHANGED outside_tree

\* the client numbers its payloads in the order it inserts them
NextPayload == Len(nodes) + 1

NextRoundTrip ==
    \/ V_InsertAsRoot(NextPayload)
    \/ \E parent_payload \in Payloads : V_Insert(NextPayload, parent_payload)
    \/ \E payload \in Payloads : \E parent_payload \in Payloads :
            V_ReparentRoundTrip(payload, parent_payload)

SpecRoundTrip == Init /\ [][NextRoundTrip]_vars

(***************************************************************************)
(* A client that builds a forest and traverses it (SpecTraverse)           *)
(***************************************************************************)
\* tree.traverse_depthfirst(func)
T_DepthFirst ==
    /\ tree_visited' = traverse_depthfirst_all(nodes, 1)
    /\ tree_called' = TreeCall("traverse_depthfirst", NoPayload, NoPayload, TRUE)
    /\ UNCHANGED << nodes, tree_parent, outside_tree >>

\* tree.traverse_depthfirst(start_index, func) with an index inside the vector
T_DepthFirstAt(start_index) ==
    /\ start_index \in 1..Len(nodes)
    /\ tree_visited' = traverse_depthfirst_at(nodes, start_index)
    /\ tree_called' = TreeCall("traverse_depthfirst_at", nodes[start_index].m_payload,
                               NoPayload, TRUE)
    /\ UNCHANGED << nodes, tree_parent, outside_tree >>

\* tree.traverse_depthfirst(start_payload, func) with a payload of the forest
T_DepthFirstFrom(start_payload) ==
    /\ contains(nodes, start_payload)
    /\ tree_visited' = traverse_depthfirst_from(nodes, start_payload)
    /\ tree_called' = TreeCall("traverse_depthfirst_from", start_payload, NoPayload, TRUE)
    /\ UNCHANGED << nodes, tree_parent, outside_tree >>

\* tree.traverse_breadthfirst(func)
T_BreadthFirst ==
    /\ tree_visited' = traverse_breadthfirst_all(nodes, 1)
    /\ tree_called' = TreeCall("traverse_breadthfirst", NoPayload, NoPayload, TRUE)
    /\ UNCHANGED << nodes, tree_parent, outside_tree >>

\* tree.traverse_breadthfirst(start_index, func) with an index inside the vector
T_BreadthFirstAt(start_index) ==
    /\ start_index \in 1..Len(nodes)
    /\ tree_visited' = traverse_breadthfirst_at(nodes, start_index)
    /\ tree_called' = TreeCall("traverse_breadthfirst_at", nodes[start_index].m_payload,
                               NoPayload, TRUE)
    /\ UNCHANGED << nodes, tree_parent, outside_tree >>

\* tree.traverse_breadthfirst(start_payload, func) with a payload of the forest
T_BreadthFirstFrom(start_payload) ==
    /\ contains(nodes, start_payload)
    /\ tree_visited' = traverse_breadthfirst_from(nodes, start_payload)
    /\ tree_called' = TreeCall("traverse_breadthfirst_from", start_payload, NoPayload, TRUE)
    /\ UNCHANGED << nodes, tree_parent, outside_tree >>

\* tree.traverse_progressive(func)
T_Progressive ==
    /\ tree_visited' = traverse_progressive_all(nodes, 1)
    /\ tree_called' = TreeCall("traverse_progressive", NoPayload, NoPayload, TRUE)
    /\ UNCHANGED << nodes, tree_parent, outside_tree >>

\* tree.traverse_depthfirst(func) with a func that takes the level
T_DepthFirstLevel ==
    /\ tree_visited' = traverse_depthfirst_level_all(nodes, 1)
    /\ tree_called' = TreeCall("traverse_depthfirst_level", NoPayload, NoPayload, TRUE)
    /\ UNCHANGED << nodes, tree_parent, outside_tree >>

\* tree.traverse_depthfirst(start_index, func) with a func that takes the
\* level and an index inside the vector
T_DepthFirstLevelAt(start_index) ==
    /\ start_index \in 1..Len(nodes)
    /\ tree_visited' = traverse_depthfirst_level_at(nodes, start_index)
    /\ tree_called' = TreeCall("traverse_depthfirst_level_at",
                               nodes[start_index].m_payload, NoPayload, TRUE)
    /\ UNCHANGED << nodes, tree_parent, outside_tree >>

\* tree.traverse_depthfirst(start_payload, func) with a func that takes the
\* level and a payload of the forest
T_DepthFirstLevelFrom(start_payload) ==
    /\ contains(nodes, start_payload)
    /\ tree_visited' = traverse_depthfirst_level_from(nodes, start_payload)
    /\ tree_called' = TreeCall("traverse_depthfirst_level_from", start_payload,
                               NoPayload, TRUE)
    /\ UNCHANGED << nodes, tree_parent, outside_tree >>

NextTraverse ==
    \/ V_InsertAsRoot(NextPayload)
    \/ \E parent_payload \in Payloads : V_Insert(NextPayload, parent_payload)
    \/ T_DepthFirst
    \/ \E start_index \in 1..MaxNodes : T_DepthFirstAt(start_index)
    \/ \E start_payload \in Payloads : T_DepthFirstFrom(start_payload)
    \/ T_BreadthFirst
    \/ \E start_index \in 1..MaxNodes : T_BreadthFirstAt(start_index)
    \/ \E start_payload \in Payloads : T_BreadthFirstFrom(start_payload)
    \/ T_Progressive
    \/ T_DepthFirstLevel
    \/ \E start_index \in 1..MaxNodes : T_DepthFirstLevelAt(start_index)
    \/ \E start_payload \in Payloads : T_DepthFirstLevelFrom(start_payload)

SpecTraverse == Init /\ [][NextTraverse]_vars

(***************************************************************************)
(* A client that reparents whenever the assertion allows (SpecReparentAny) *)
(***************************************************************************)
\* tree.reparent(payload, parent_payload) with both in the forest and
\* is_descendant_of(parent_payload, payload) false, the condition asserted
\* at the head of reparent; tree_parent follows what the forest then holds
V_ReparentAny(payload, parent_payload) ==
    /\ contains(nodes, payload)
    /\ contains(nodes, parent_payload)
    /\ ~is_descendant_of(nodes, parent_payload, payload)
    /\ nodes' = reparent(nodes, payload, parent_payload)
    /\ tree_parent' =
          IF insert_result(erase_branch_at_index(nodes, find_node_index(nodes, payload)),
                           payload, parent_payload)
          THEN [tree_parent EXCEPT ![payload] = parent_payload]
          ELSE Without(tree_parent, {payload} \cup DescendantsOf(tree_parent, payload))
    /\ tree_called' = TreeCall("reparent", payload, parent_payload, TRUE)
    /\ tree_visited' = << >>
    /\ UNCHANGED outside_tree

NextReparentAny ==
    \/ \E payload \in Payloads : V_InsertAsRoot(payload)
    \/ \E payload \in Payloads : \E parent_payload \in Payloads : V_Insert(payload, parent_payload)
    \/ \E payload \in Payloads : \E parent_payload \in Payloads :
            V_ReparentAny(payload, parent_payload)

SpecReparentAny == Init /\ [][NextReparentAny]_vars

(***************************************************************************)
(* A client that builds a forest and queries it (SpecQuery)                *)
(***************************************************************************)
\* tree.is_last_sibling(index) with an index inside the vector
Q_IsLastSibling(node_index) ==
    /\ node_index \in 1..Len(nodes)
    /\ tree_called' = TreeCall("is_last_sibling", nodes[node_index].m_payload, NoPayload,
                               is_last_sibling(nodes, node_index))
    /\ UNCHANGED << nodes, tree_parent, tree_visited, outside_tree >>

\* tree.is_last_sibling(payload) with a payload of the forest
Q_IsLastSiblingOf(payload) ==
    /\ contains(nodes, payload)
    /\ tree_called' = TreeCall("is_last_sibling", payload, NoPayload,
                               is_last_sibling_of(nodes, payload))
    /\ UNCHANGED << nodes, tree_parent, tree_visited, outside_tree >>

\* tree.is_descendant_of(payload1, payload2) with payloads of the forest
Q_IsDescendantOf(payload1, payload2) ==
    /\ contains(nodes, payload1)
    /\ contains(nodes, payload2)
    /\ tree_called' = TreeCall("is_descendant_of", payload1, payload2,
                               is_descendant_of(nodes, payload1, payload2))
    /\ UNCHANGED << nodes, tree_parent, tree_visited, outside_tree >>

NextQuery ==
    \/ V_InsertAsRoot(NextPayload)
    \/ \E parent_payload \in Payloads : V_Insert(NextPayload, parent_payload)
    \/ \E node_index \in 1..MaxNodes : Q_IsLastSibling(node_index)
    \/ \E payload \in Payloads : Q_IsLastSiblingOf(payload)
    \/ \E payload1 \in Payloads : \E payload2 \in Payloads :
            Q_IsDescendantOf(payload1, payload2)

SpecQuery == Init /\ [][NextQuery]_vars

(***************************************************************************)
(* Properties of the sequential slab client (Spec)                         *)
(***************************************************************************)
LiveOffsets == { h.ofs : h \in live }
FreeOffsets == SeqToSet(freelist_visitor(pool))

\* C1: count_free() plus the number of live objects is capacity() /
\* element_size, and every slot is either live or on the free-list, never
\* both and never neither.
C1_SlotAccounting ==
    /\ count_free(pool) + Cardinality(live) = capacity(pool) \div ElemSize
    /\ \A i \in Offsets(capacity(pool)) : (i \in FreeOffsets) # (i \in LiveOffsets)

\* a destroy has just left several free slots beside a live object
C1_Witness ==
    /\ last.op = "destroy"
    /\ count_free(pool) >= 2
    /\ live # {}
    /\ pool.constructions >= 4

\* C2: a create that grows the pool leaves every handle that was live before
\* it live at the same offset, and get returns the same value as before.
C2_IndexStableAcrossGrow ==
    [][ capacity(pool') > capacity(pool) =>
          \A h \in live : /\ h \in live'
                          /\ get(pool', h.ofs) = get(pool, h.ofs)
                          /\ get(pool', h.ofs) = h.value
                          /\ pool'.m_pool[h.ofs].tag = "obj" ]_vars

\* the second grow with live objects has happened (2 -> 4 slots) and the
\* objects created before it are still read back
C2_Witness ==
    /\ last.op = "create" /\ last.grew
    /\ capacity(pool) = 4 * ElemSize
    /\ Cardinality(live) = 3
    /\ \A h \in live : get(pool, h.ofs) = h.value

\* C3: a create that follows destroys returns the offset of the most recently
\* destroyed slot that has not been handed out again, also when never-used
\* slots added by growth are on the free-list.
C3_FreelistReuseLIFO ==
    [][ (last'.op = "create" /\ free_stack # << >>) =>
          last'.ofs = Head(free_stack) ]_vars

\* a create has reused a destroyed slot while an older destroyed slot and a
\* never-used slot were waiting on the free-list
C3_Witness ==
    /\ last.op = "create" /\ last.reused
    /\ free_stack # << >>
    /\ count_free(pool) > Len(free_stack)

\* n is a power of two
IsPowerOfTwo(n) == \E k \in 0..(MaxSlots + 1) : n = 2^k
\* the slot count of the pool
Slots(p) == capacity(p) \div ElemSize

\* C13: capacity starts at 0 and is always a whole number of slots; it
\* changes only in a create that finds the free-list empty, and every such
\* create raises the slot count to the least power of two above the current
\* slot count; destroy and a create served from the free-list leave it alone.
C13_GrowthPolicy ==
    /\ capacity(pool) = 0
    /\ [](capacity(pool) = Slots(pool) * ElemSize)
    /\ [][ /\ capacity(pool') # capacity(pool) =>
                 (last'.op = "create" /\ pool.m_free_first = m_index_null)
           /\ (last'.op = "create" /\ pool.m_free_first = m_index_null) =>
                 /\ Slots(pool') > Slots(pool)
                 /\ IsPowerOfTwo(Slots(pool'))
                 /\ ~\E m \in (Slots(pool) + 1)..(Slots(pool') - 1) : IsPowerOfTwo(m)
           /\ (last'.op = "create" /\ pool.m_free_first # m_index_null) =>
                 capacity(pool') = capacity(pool)
           /\ last'.op = "destroy" => capacity(pool') = capacity(pool)
           /\ capacity(pool') >= capacity(pool) ]_vars

\* the pool has grown 0 -> 1 -> 2 -> 4 slots and a create served from the
\* free-list has just filled the last of them
C13_Witness ==
    /\ last.op = "create" /\ ~last.grew
    /\ Slots(pool) = 4
    /\ Cardinality(live) = 4

\* C19: a create whose grow fails to allocate leaves the pool as it was:
\* capacity, buffer, m_free_first / m_free_last and every live object, and
\* every handle live before is still read back through get.
C19_AllocationFailureAtomic ==
    [][ last'.op = "create_failed" =>
          /\ pool' = pool
          /\ capacity(pool') = capacity(pool)
          /\ \A h \in live : /\ h.ofs \in DOMAIN pool'.m_pool
                              /\ get(pool', h.ofs) = h.value ]_vars

(***************************************************************************)
(* Properties of the client that chooses the alignment (SpecAlign)         *)
(***************************************************************************)
\* C12: the address of every live slot, base + k * element_size, is a
\* multiple of the alignment the pool was constructed with.
C12_AlignmentContract ==
    \A h \in live : ptr_at(base, h.ofs) % m_pool_alignment = 0

(***************************************************************************)
(* Properties of the worker threads (SpecThreads)                          *)
(***************************************************************************)
\* no thread is inside a pool operation
Quiescent == m_mutex = NoThread /\ \A t \in Threads : pc[t] \in {"create", "destroy", "done"}
AllDone == \A t \in Threads : pc[t] = "done"
ObjectSlots == { i \in Offsets(capacity(pool)) : pool.m_pool[i].tag = "obj" }

\* C10: at every quiescent point constructions - destructions is the number
\* of live objects (handles held, and slots holding an object); when all
\* threads are done constructions = destructions, constructions >=
\* NThreads * Iterations and every slot is free.
C10_ConcurrentCreateDestroy ==
    /\ Quiescent =>
         /\ pool.constructions - pool.destructions = Cardinality(live)
         /\ pool.constructions - pool.destructions = Cardinality(ObjectSlots)
    /\ AllDone =>
         /\ pool.constructions = pool.destructions
         /\ pool.constructions >= NThreads * Iterations
         /\ live = {}
         /\ count_free(pool) = capacity(pool) \div ElemSize
         /\ FreeOffsets = Offsets(capacity(pool))

\* all threads have finished, after grows that migrated live objects
C10_Witness ==
    /\ AllDone
    /\ pool.constructions > NThreads * Iterations
    /\ capacity(pool) >= NThreads * Iterations * ElemSize

\* C11: at every point of every interleaving the handles of the live objects
\* have pairwise distinct offsets, each of them holds its object, and the
\* slot a create in progress has picked is not the slot of a live object.
C11_NoSlotHandedOutTwice ==
    /\ \A h1 \in live : \A h2 \in live : h1.ofs = h2.ofs => h1 = h2
    /\ \A h \in live : assert_index(pool, h.ofs) /\ pool.m_pool[h.ofs] = ObjCell(h.value)
    /\ \A t \in Threads : pc[t] = "create_construct" => index[t] \notin LiveOffsets

\* one thread has destroyed an object and still holds another, while a second
\* thread that holds an object is inside create with a slot picked
C11_Witness ==
    \E a \in Threads : \E b \in Threads \ {a} :
        /\ pc[a] = "destroy"
        /\ Cardinality(OwnHandles(a)) = Iterations - 1
        /\ OwnHandles(a) # {}
        /\ OwnHandles(b) # {}
        /\ pc[b] = "create_construct"
        /\ pool.m_pool[index[b]].tag = "free"

(***************************************************************************)
(* Properties of the ResourcePool client (SpecPool, SpecChurn)             *)
(***************************************************************************)
\* issued records whose object has been removed
StaleRecords == issued \ DOMAIN alive
\* the number of slots of the pool's slab
SlotCount(r) == capacity(r.m_pool) \div ElemSize
\* the slot of h has been given to a later handle that is still alive
Reissued(h) == \E r2 \in DOMAIN alive : r2.ofs = h.ofs /\ r2.version # h.version
\* the latest call passed a handle whose object was removed before
CalledStale == \E r \in StaleRecords : HandleOf(r) = called.h
\* the latest call removed the object of the handle it was given
CalledRemoved == CalledStale /\ rp.m_pool.m_free_first = called.h.ofs

\* C4: every handle returned by add and not removed since is valid and get
\* returns the object stored with it, whatever other calls were made.
C4_HandleValidity ==
    \A r \in DOMAIN alive :
        /\ valid(rp, HandleOf(r))
        /\ get_ok(rp, HandleOf(r))
        /\ get_value(rp, HandleOf(r)) = r.value

\* the first object added is still there after the slab grew to 4 slots and
\* a remove was called with a stale handle whose slot has a new occupant
C4_Witness ==
    /\ SlotCount(rp) = 4
    /\ \E r \in DOMAIN alive : r.value = 1
    /\ called.op = "remove" /\ CalledStale /\ Reissued(called.h)

\* C5: right after remove(h) on a valid handle, valid(h) is false,
\* use_count(h) is 0 and get(h) fails with InvalidHandle.
C5_RemoveInvalidates ==
    [][ (called'.op = "remove" /\ valid(rp, called'.h)) =>
          /\ ~valid(rp', called'.h)
          /\ use_count(rp', called'.h) = 0
          /\ ~get_ok(rp', called'.h) ]_vars

\* remove has just destroyed an object that still had two owners
C5_Witness ==
    /\ called.op = "remove" /\ CalledRemoved
    /\ \E r \in DOMAIN alive : alive[r] = 2

\* C6: once a handle has been invalidated it never validates again, however
\* often its slot is reused.
C6_StaleNeverValidAgain ==
    [][ \A r \in StaleRecords :
          ~valid(rp, HandleOf(r)) => ~valid(rp', HandleOf(r)) ]_vars

\* C7: add sets the use count to 1, retain adds 1 and release subtracts 1 on
\* a valid handle; the release that brings the count to 0 destroys the
\* object and invalidates the handle, nothing but that release or a remove
\* destroys an object, and a handle with count >= 1 that was not removed is
\* valid with its object alive.
C7_RefCountLifecycle ==
    /\ [](\A r \in DOMAIN alive :
            /\ use_count(rp, HandleOf(r)) = alive[r]
            /\ alive[r] >= 1
            /\ valid(rp, HandleOf(r))
            /\ rp.m_pool.m_pool[r.ofs] = ObjCell(r.value))
    /\ [][ /\ called'.op = "add" => use_count(rp', called'.h) = 1
           /\ (called'.op = "retain" /\ valid(rp, called'.h)) =>
                 /\ use_count(rp', called'.h) = use_count(rp, called'.h) + 1
                 /\ rp'.m_pool = rp.m_pool
           /\ (called'.op = "release" /\ valid(rp, called'.h)
                 /\ use_count(rp, called'.h) > 1) =>
                 /\ use_count(rp', called'.h) = use_count(rp, called'.h) - 1
                 /\ valid(rp', called'.h)
                 /\ rp'.m_pool = rp.m_pool
           /\ (called'.op = "release" /\ valid(rp, called'.h)
                 /\ use_count(rp, called'.h) = 1) =>
                 /\ ~valid(rp', called'.h)
                 /\ rp'.m_pool.destructions = rp.m_pool.destructions + 1
                 /\ rp'.m_pool.m_pool[called'.h.ofs].tag = "free"
           /\ (rp'.m_pool.constructions - rp'.m_pool.destructions
                 < rp.m_pool.constructions - rp.m_pool.destructions) =>
                 /\ valid(rp, called'.h)
                 /\ \/ called'.op = "remove"
                    \/ called'.op = "release" /\ use_count(rp, called'.h) = 1
         ]_vars

\* a release has just brought a count to 0 and destroyed the object, while
\* another handle is held with count 2
C7_Witness ==
    /\ called.op = "release" /\ CalledRemoved
    /\ \E r \in DOMAIN alive : alive[r] = 2 /\ use_count(rp, HandleOf(r)) = 2

\* C8: every object is destroyed exactly once (the destructor runs as often
\* as objects were removed, and no slot is on the free-list twice), and a
\* remove or release with an invalid handle changes nothing.
C8_ExactlyOnceDestruction ==
    /\ [](/\ rp.m_pool.constructions - rp.m_pool.destructions = Cardinality(DOMAIN alive)
          /\ count_free(rp.m_pool) + Cardinality(DOMAIN alive) = SlotCount(rp)
          /\ \A r \in DOMAIN alive : rp.m_pool.m_pool[r.ofs].tag = "obj"
          /\ \A i \in SeqToSet(freelist_visitor(rp.m_pool)) : rp.m_pool.m_pool[i].tag = "free")
    /\ [][ (called'.op \in {"remove", "release"} /\ ~valid(rp, called'.h)) =>
              rp' = rp ]_vars

\* remove was called again with a handle removed earlier: its slot is free,
\* and another slot was freed after it
C8_Witness ==
    /\ called.op = "remove" /\ CalledStale
    /\ rp.m_pool.m_pool[called.h.ofs].tag = "free"
    /\ rp.m_pool.m_free_first # called.h.ofs
    /\ rp.m_pool.destructions >= 2

\* C9: retain, release and remove with a handle whose slot has been re-issued
\* under another version leave the pool as it is, and use_count of the stale
\* handle is 0.
C9_StaleOpsAreNoOps ==
    [][ (called'.op \in {"retain", "release", "remove"}
           /\ ~(\E r \in DOMAIN alive : HandleOf(r) = called'.h)
           /\ Reissued(called'.h)) =>
          /\ rp' = rp
          /\ use_count(rp', called'.h) = 0 ]_vars

\* release was called with a stale handle whose slot holds a later object
\* that has two owners
C9_Witness ==
    /\ called.op = "release" /\ CalledStale /\ Reissued(called.h)
    /\ \E r2 \in DOMAIN alive : r2.ofs = called.h.ofs /\ alive[r2] = 2

\* C14: used_visitor calls f once for every live slot, in ascending offset
\* order, and for no free slot; for_each hands f every live resource once.
C14_UsedVisitor ==
    LET visited == used_visitor(rp.m_pool) IN
    /\ \A j \in 1..Len(visited) : \A k \in 1..Len(visited) :
          j < k => visited[j] < visited[k]
    /\ SeqToSet(visited) = { r.ofs : r \in DOMAIN alive }
    /\ Len(visited) = Cardinality(DOMAIN alive)
    /\ \A k \in 1..Len(visited) : rp.m_pool.m_pool[visited[k]].tag = "obj"
    /\ Len(for_each(rp)) = Cardinality(DOMAIN alive)
    /\ \A r \in DOMAIN alive :
          \E k \in 1..Len(visited) : visited[k] = r.ofs /\ for_each(rp)[k] = r.value

\* two live resources sit above a slot freed by a removal, and the slab
\* holds a slot added by growth that was never handed out
C14_Witness ==
    /\ SlotCount(rp) = 4
    /\ Cardinality(DOMAIN alive) = 2
    /\ \E r \in StaleRecords :
          /\ rp.m_pool.m_pool[r.ofs].tag = "free"
          /\ \A r2 \in DOMAIN alive : r2.ofs > r.ofs
    /\ \E i \in Offsets(capacity(rp.m_pool)) : \A r \in issued : r.ofs # i
    /\ Len(for_each(rp)) = 2

\* C15: the first add into a slot never handed out returns version 1; a
\* remove (or the release of the last reference) raises the stored version of
\* the slot by exactly 1; an add that reuses a slot returns the stored version
\* and leaves it as it is, so the new handle has the offset of the removed
\* ones and a greater version, get fails for them and returns the new object
\* for the new handle.
C15_VersionStamping ==
    [][ /\ called'.op = "add" =>
             LET h2 == called'.h
                 before == { r \in issued : r.ofs = h2.ofs }
             IN /\ before = {} => h2.version = 1
                /\ before # {} =>
                      /\ h2.version = rp.m_versions[slot_of(h2.ofs)]
                      /\ rp'.m_versions[slot_of(h2.ofs)] = rp.m_versions[slot_of(h2.ofs)]
                /\ \A r \in before :
                      /\ h2.version > r.version
                      /\ ~get_ok(rp', HandleOf(r))
                /\ get_ok(rp', h2)
                /\ get_value(rp', h2) = NextValue
        /\ ( /\ valid(rp, called'.h)
             /\ \/ called'.op = "remove"
                \/ called'.op = "release" /\ use_count(rp, called'.h) = 1 ) =>
             /\ rp'.m_versions[slot_of(called'.h.ofs)]
                   = rp.m_versions[slot_of(called'.h.ofs)] + 1
             /\ versionify_version(rp'.m_versions, called'.h.ofs) = called'.h.version + 1
      ]_vars

(***************************************************************************)
(* Properties of the client that binds GUIDs (SpecGuid)                    *)
(***************************************************************************)
\* the call removes the object of the handle it is given
Removes(c) ==
    /\ valid(rp, c.h)
    /\ \/ c.op = "remove"
       \/ c.op = "release" /\ use_count(rp, c.h) = 1

\* C16: after remove(h), or the release(h) of the last reference, of a
\* handle bound to GUID g, find_by_guid(g) returns the null handle and
\* guid_of(h) returns the invalid GUID.
C16_RemoveUnbindsGuid ==
    [][ (Removes(called') /\ guid_of(rp, called'.h) # GuidInvalid) =>
          /\ find_by_guid(rp', guid_of(rp, called'.h)) = NullHandle
          /\ guid_of(rp', called'.h) = GuidInvalid ]_vars

\* C17: an add under a GUID that is bound already fails and leaves the pool
\* as it was: no slot allocated, capacity, free-list, versions, reference
\* counts and both GUID maps unchanged.
C17_DuplicateGuidRejected ==
    [][ (called'.op = "add" /\ called'.guid # GuidInvalid
           /\ called'.guid \in DOMAIN rp.m_guid_map) => rp' = rp ]_vars

(***************************************************************************)
(* Properties of the registry client (SpecRegistry)                        *)
(***************************************************************************)
\* the call c, made for a registered type, has done to that type's pool what
\* the same call does to a ResourcePool, and returned what that pool returns
RoutedTo(q, q2, c) ==
    /\ c.op = "add" => /\ q2 = add(q, c.result)
                       /\ c.h = add_handle(q, c.result)
                       /\ get_value(q2, c.h) = c.result
    /\ c.op = "remove" => q2 = remove(q, c.h)
    /\ c.op = "retain" => q2 = retain(q, c.h)
    /\ c.op = "release" => q2 = release(q, c.h)
    /\ c.op \in {"get", "use_count", "valid", "for_all", "find_by_guid"} => q2 = q
    /\ c.op = "get" => \/ c.error = "InvalidHandle" /\ ~get_ok(q, c.h)
                       \/ c.error = "none" /\ get_ok(q, c.h) /\ c.result = get_value(q, c.h)
    /\ c.op = "use_count" => c.result = use_count(q, c.h)
    /\ c.op = "valid" => (c.result = 1) = valid(q, c.h)
    /\ c.op = "for_all" => c.result = Cardinality({ i \in DOMAIN q.m_ref_counts : q.m_ref_counts[i] > 0 })

\* C18: a call other than add<T> for a type with no pool fails with
\* TypeNotRegistered and leaves the registry as it is; the first add<T>
\* creates one pool, for T; every later call for T acts on that pool and on
\* no other.
C18_RegistryRouting ==
    [][ LET c == reg_called' IN
        /\ (c.op # "add" /\ c.type \notin DOMAIN pools) =>
              /\ c.error = "TypeNotRegistered"
              /\ pools' = pools
        /\ (c.op = "add" /\ c.type \notin DOMAIN pools) =>
              /\ DOMAIN pools' = (DOMAIN pools) \cup {c.type}
              /\ \A U \in DOMAIN pools : pools'[U] = pools[U]
              /\ RoutedTo(ResourcePoolInit, pools'[c.type], c)
        /\ c.type \in DOMAIN pools =>
              /\ c.error # "TypeNotRegistered"
              /\ DOMAIN pools' = DOMAIN pools
              /\ \A U \in (DOMAIN pools) \ {c.type} : pools'[U] = pools[U]
              /\ RoutedTo(pools[c.type], pools'[c.type], c)
      ]_vars

\* one type has a pool with a live resource, a call for the other type has
\* just failed, and no pool was made for it
C18_Witness ==
    /\ reg_called.op \in {"get", "remove", "retain", "release", "valid",
                           "use_count", "for_all", "find_by_guid"}
    /\ reg_called.error = "TypeNotRegistered"
    /\ DOMAIN pools # {}
    /\ reg_called.type \notin DOMAIN pools
    /\ \E T \in DOMAIN pools : \E h \in reg_handles[T] : use_count(pools[T], h) = 2

(***************************************************************************)
(* Properties of the forest client (SpecForest)                            *)
(***************************************************************************)
\* the positions of the children of the node at i, and of the roots
ChildrenAt(i) ==
    { j \in 1..Len(nodes) : nodes[j].m_parent_ofs # 0 /\ j - nodes[j].m_parent_ofs = i }
RootsAt == { j \in 1..Len(nodes) : nodes[j].m_parent_ofs = 0 }

\* the sum of m_branch_stride over the positions in S
RECURSIVE StrideSum(_)
StrideSum(S) ==
    IF S = {} THEN 0
    ELSE LET j == CHOOSE x \in S : TRUE
         IN nodes[j].m_branch_stride + StrideSum(S \ {j})

\* C20: every node has a branch stride >= 1 that is 1 + the sum of the
\* strides of its children and 1 + the number of its descendants, and the
\* strides of the roots add up to size().
C20_StrideInvariant ==
    /\ \A i \in 1..Len(nodes) :
          /\ nodes[i].m_branch_stride >= 1
          /\ nodes[i].m_branch_stride = 1 + StrideSum(ChildrenAt(i))
          /\ nodes[i].m_branch_stride
                = 1 + Cardinality(DescendantsOf(tree_parent, nodes[i].m_payload))
    /\ StrideSum(RootsAt) = Len(nodes)
    /\ { nodes[i].m_payload : i \in 1..Len(nodes) } = DOMAIN tree_parent

\* a reparent has just moved a branch of two nodes under a node of another
\* tree
C20_Witness ==
    /\ tree_called.op = "reparent"
    /\ Len(nodes) = 4
    /\ nodes[find_node_index(nodes, tree_called.payload)].m_branch_stride = 2
    /\ nodes[find_node_index(nodes, tree_called.parent)].m_branch_stride = 3
    /\ nodes[1].m_branch_stride = 4

\* the position of the node holding a payload that is in the forest
IndexOf(payload) == find_node_index(nodes, payload)

\* C21: the parent offset of a node is 0 exactly when the node is a root;
\* otherwise the position that many places back exists, holds the node's
\* parent, and the node lies inside the parent's branch, after the parent
C21_ParentOffsetInvariant ==
    \A i \in 1..Len(nodes) :
        LET ofs == nodes[i].m_parent_ofs
            expected == tree_parent[nodes[i].m_payload]
        IN /\ (ofs = 0) <=> (expected = NoPayload)
           /\ ofs # 0 =>
                /\ i - ofs >= 1
                /\ nodes[i - ofs].m_payload = expected
                /\ i >= (i - ofs) + 1
                /\ i < (i - ofs) + nodes[i - ofs].m_branch_stride

\* an erase_branch has just removed a leaf that preceded a sibling of its
\* parent: the offset of that trailing node was shortened to 2
C21_Witness ==
    /\ tree_called.op = "erase_branch"
    /\ tree_called.result
    /\ Len(nodes) = 3
    /\ nodes[3].m_parent_ofs = 2
    /\ nodes[2].m_parent_ofs = 1

\* the payload of the parent of the node at position i of ns (NoPayload for
\* a root), and the payloads at the positions ascend visits above i
ParentPayloadAt(ns, i) ==
    IF ns[i].m_parent_ofs = 0 THEN NoPayload ELSE ns[i - ns[i].m_parent_ofs].m_payload
AncestorsAt(ns, i) ==
    { ns[ascend(ns, i)[k]].m_payload : k \in 2..Len(ascend(ns, i)) }
PayloadsIn(ns) == { ns[i].m_payload : i \in 1..Len(ns) }

\* C22: insert(p, q) with q at position P returns true, grows the forest by
\* one, puts the new node at P+1 with parent offset 1, stride 1 and no
\* children, raises the children count of q by one and the stride of q and
\* of each ancestor of q by one, and leaves every other node its parent and
\* payload (and every other stride and children count).
C22_InsertUnderParent ==
    [][ (tree_called'.op = "insert" /\ contains(nodes, tree_called'.parent)) =>
        LET p == tree_called'.payload
            q == tree_called'.parent
            P == find_node_index(nodes, q)
            raised == {q} \cup AncestorsAt(nodes, P)
        IN /\ tree_called'.result = TRUE
           /\ Len(nodes') = Len(nodes) + 1
           /\ nodes'[P + 1] = [m_nbr_children |-> 0, m_branch_stride |-> 1,
                               m_parent_ofs |-> 1, m_payload |-> p]
           /\ nodes'[P].m_payload = q
           /\ nodes'[P].m_nbr_children = nodes[P].m_nbr_children + 1
           /\ \A i \in 1..Len(nodes) :
                LET x == nodes[i].m_payload
                    j == find_node_index(nodes', x)
                IN /\ j = IF i <= P THEN i ELSE i + 1
                   /\ ParentPayloadAt(nodes', j) = ParentPayloadAt(nodes, i)
                   /\ nodes'[j].m_branch_stride
                        = nodes[i].m_branch_stride + IF x \in raised THEN 1 ELSE 0
                   /\ nodes'[j].m_nbr_children
                        = nodes[i].m_nbr_children + IF x = q THEN 1 ELSE 0
      ]_vars

\* an insert has just put a node under a parent that has a parent itself and
\* already had a child: the new node sits directly behind the parent, ahead
\* of the earlier child
C22_Witness ==
    /\ tree_called.op = "insert"
    /\ tree_called.result
    /\ Len(nodes) = 4
    /\ nodes[2].m_payload = tree_called.parent
    /\ nodes[2].m_nbr_children = 2
    /\ nodes[3].m_payload = tree_called.payload
    /\ nodes[4].m_parent_ofs = 2
    /\ nodes[1].m_branch_stride = 4

\* C23: insert(p, q) with q not in the forest returns false and leaves the
\* forest as it was.
C23_InsertMissingParent ==
    [][ (tree_called'.op = "insert" /\ ~contains(nodes, tree_called'.parent)) =>
            /\ tree_called'.result = FALSE
            /\ nodes' = nodes
            /\ ~contains(nodes', tree_called'.payload)
      ]_vars

\* an insert under a payload that is not in a forest of three nodes has just
\* returned false
C23_Witness ==
    /\ tree_called.op = "insert"
    /\ tree_called.result = FALSE
    /\ ~contains(nodes, tree_called.parent)
    /\ Len(nodes) = 3
    /\ nodes[1].m_branch_stride = 2

\* the payloads of ns in storage order, and those of the branch at position i
PayloadSeq(ns) == [i \in 1..Len(ns) |-> ns[i].m_payload]
BranchPayloads(ns, i) == { ns[k].m_payload : k \in i..(i + ns[i].m_branch_stride - 1) }

\* C24: erase_branch(p) of a payload in the forest returns true and removes
\* exactly p and its descendants: size drops by the stride of p, none of them
\* is contained afterwards, the other nodes keep their parent and relative
\* order, and the former parent has one child less; erasing a root removes
\* its whole tree. For a payload not in the forest it returns false and
\* changes nothing.
C24_EraseBranch ==
    [][ tree_called'.op = "erase_branch" =>
        LET p == tree_called'.payload
            P == find_node_index(nodes, p)
        IN IF ~contains(nodes, p)
           THEN tree_called'.result = FALSE /\ nodes' = nodes
           ELSE LET removed == BranchPayloads(nodes, P)
                    Kept(x) == x \notin removed
                    o == ParentPayloadAt(nodes, P)
                IN /\ tree_called'.result = TRUE
                   /\ removed = {p} \cup DescendantsOf(tree_parent, p)
                   /\ Len(nodes') = Len(nodes) - nodes[P].m_branch_stride
                   /\ \A x \in removed : ~contains(nodes', x)
                   /\ PayloadSeq(nodes') = SelectSeq(PayloadSeq(nodes), Kept)
                   /\ \A i \in 1..Len(nodes) :
                        Kept(nodes[i].m_payload) =>
                            LET j == find_node_index(nodes', nodes[i].m_payload)
                            IN /\ ParentPayloadAt(nodes', j) = ParentPayloadAt(nodes, i)
                               /\ nodes'[j].m_nbr_children
                                    = nodes[i].m_nbr_children
                                      - IF nodes[i].m_payload = o THEN 1 ELSE 0
      ]_vars

\* an erase_branch has just returned true and left a root with one child,
\* two of the payloads being out of the forest
C24_Witness ==
    /\ tree_called.op = "erase_branch"
    /\ tree_called.result
    /\ Len(nodes) = 2
    /\ Cardinality(Payloads \ PayloadsIn(nodes)) = 2
    /\ nodes[1].m_nbr_children = 1
    /\ nodes[2].m_parent_ofs = 1

\* C25: reparent(p, q) with p and q in the forest, q # p and q not below p:
\* afterwards the parent of p is q, the descendants of p are the same and
\* keep their parents, every node outside the branch of p keeps its parent,
\* size is unchanged, and the children counts change by -1 at the old
\* parent of p and by +1 at q (and nowhere else).
C25_Reparent ==
    [][ tree_called'.op = "reparent" =>
        LET p == tree_called'.payload
            q == tree_called'.parent
            P == find_node_index(nodes, p)
            o == ParentPayloadAt(nodes, P)
        IN /\ contains(nodes', p)
           /\ ParentPayloadAt(nodes', find_node_index(nodes', p)) = q
           /\ BranchPayloads(nodes', find_node_index(nodes', p)) = BranchPayloads(nodes, P)
           /\ Len(nodes') = Len(nodes)
           /\ PayloadsIn(nodes') = PayloadsIn(nodes)
           /\ \A i \in 1..Len(nodes) :
                LET x == nodes[i].m_payload
                    j == find_node_index(nodes', x)
                IN /\ x # p => ParentPayloadAt(nodes', j) = ParentPayloadAt(nodes, i)
                   /\ nodes'[j].m_nbr_children
                        = nodes[i].m_nbr_children
                          - (IF x = o THEN 1 ELSE 0) + (IF x = q THEN 1 ELSE 0)
      ]_vars

\* a reparent has just moved a node with a child and a grandchild under the
\* root of another tree
C25_Witness ==
    /\ tree_called.op = "reparent"
    /\ Len(nodes) = 4
    /\ nodes[1].m_payload = tree_called.parent
    /\ nodes[2].m_payload = tree_called.payload
    /\ nodes[2].m_branch_stride = 3
    /\ nodes[2].m_nbr_children = 1
    /\ nodes[4].m_parent_ofs = 1

\* the structural invariants of a vector of nodes: every stride is at least
\* 1, stays inside the vector and is 1 + the strides of the children, the
\* children count is the number of nodes whose offset points at the node,
\* every non-root lies inside the branch of the node its offset points at,
\* and the strides of the roots add up to the size
ChildrenIn(ns, i) ==
    { j \in 1..Len(ns) : ns[j].m_parent_ofs # 0 /\ j - ns[j].m_parent_ofs = i }
RECURSIVE StrideSumIn(_, _)
StrideSumIn(ns, S) ==
    IF S = {} THEN 0
    ELSE LET j == CHOOSE x \in S : TRUE
         IN ns[j].m_branch_stride + StrideSumIn(ns, S \ {j})
StructureOK(ns) ==
    /\ \A i \in 1..Len(ns) :
          /\ ns[i].m_branch_stride >= 1
          /\ i + ns[i].m_branch_stride - 1 <= Len(ns)
          /\ ns[i].m_branch_stride = 1 + StrideSumIn(ns, ChildrenIn(ns, i))
          /\ ns[i].m_nbr_children = Cardinality(ChildrenIn(ns, i))
          /\ ns[i].m_parent_ofs # 0 =>
                /\ i - ns[i].m_parent_ofs >= 1
                /\ i < (i - ns[i].m_parent_ofs) + ns[i - ns[i].m_parent_ofs].m_branch_stride
    /\ StrideSumIn(ns, { j \in 1..Len(ns) : ns[j].m_parent_ofs = 0 }) = Len(ns)
    /\ Cardinality(PayloadsIn(ns)) = Len(ns)

\* C26: reparent(p, q) followed by reparent(p, o), o the original parent of
\* p, leaves a forest that satisfies the structural invariants and in which
\* every node has the parent it had originally.
C26_ReparentRoundTrip ==
    [][ tree_called'.op = "reparent_back" =>
          /\ PayloadsIn(nodes') = PayloadsIn(nodes)
          /\ Len(nodes') = Len(nodes)
          /\ StructureOK(nodes')
          /\ \A i \in 1..Len(nodes) :
                ParentPayloadAt(nodes', find_node_index(nodes', nodes[i].m_payload))
                    = ParentPayloadAt(nodes, i)
      ]_vars

\* a node with a child has just been moved under the root of another tree
\* and back under its own parent
C26_Witness ==
    /\ tree_called.op = "reparent_back"
    /\ Len(nodes) = 4
    /\ nodes[1].m_nbr_children = 1
    /\ nodes[2].m_payload = tree_called.payload
    /\ nodes[2].m_nbr_children = 1
    /\ nodes[4].m_payload = tree_called.parent
    /\ nodes[4].m_parent_ofs = 0

\* C27: unparent(p) of a payload in the forest makes p a root that starts
\* behind all other trees, keeps the descendants of p and their parents,
\* keeps the size, lowers the stride of every former ancestor by the stride
\* of p and the children count of the former parent by one, and leaves p a
\* descendant of none of its former ancestors.
C27_Unparent ==
    [][ tree_called'.op = "unparent" =>
        LET p == tree_called'.payload
            P == find_node_index(nodes, p)
            o == ParentPayloadAt(nodes, P)
            above == AncestorsAt(nodes, P)
            moved == BranchPayloads(nodes, P)
            stride == nodes[P].m_branch_stride
            Stays(x) == x \notin moved
            Pn == find_node_index(nodes', p)
        IN /\ contains(nodes', p)
           /\ nodes'[Pn].m_parent_ofs = 0
           /\ Len(nodes') = Len(nodes)
           /\ Pn = Len(nodes) - stride + 1
           /\ nodes'[Pn].m_branch_stride = stride
           /\ BranchPayloads(nodes', Pn) = moved
           /\ SubSeq(PayloadSeq(nodes'), 1, Pn - 1) = SelectSeq(PayloadSeq(nodes), Stays)
           /\ \A i \in 1..Len(nodes) :
                LET x == nodes[i].m_payload
                    j == find_node_index(nodes', x)
                IN /\ x # p => ParentPayloadAt(nodes', j) = ParentPayloadAt(nodes, i)
                   /\ nodes'[j].m_branch_stride
                        = nodes[i].m_branch_stride - IF x \in above THEN stride ELSE 0
                   /\ nodes'[j].m_nbr_children
                        = nodes[i].m_nbr_children - IF x = o THEN 1 ELSE 0
           /\ \A a \in above : ~is_descendant_of(nodes', p, a)
      ]_vars

\* an unparent has just made a root of a node with a child; its tree of two
\* nodes follows a tree of two nodes
C27_Witness ==
    /\ tree_called.op = "unparent"
    /\ Len(nodes) = 4
    /\ nodes[1].m_branch_stride = 2
    /\ nodes[2].m_parent_ofs = 1
    /\ nodes[2].m_nbr_children = 0
    /\ nodes[3].m_payload = tree_called.payload
    /\ nodes[3].m_parent_ofs = 0
    /\ nodes[4].m_parent_ofs = 1

\* the payloads of the calls in tree_visited, in order, and where a payload
\* was visited
VisitedPayloads == [k \in 1..Len(tree_visited) |-> tree_visited[k].payload]
VisitedAt(x) == { k \in 1..Len(tree_visited) : tree_visited[k].payload = x }
VisitedOnce(S) ==
    /\ Len(tree_visited) = Cardinality(S)
    /\ \A x \in S : Cardinality(VisitedAt(x)) = 1
    /\ \A k \in 1..Len(tree_visited) :
          /\ tree_visited[k].index \in 1..Len(nodes)
          /\ nodes[tree_visited[k].index].m_payload = tree_visited[k].payload
ParentVisitedFirst(S) ==
    \A k \in 1..Len(tree_visited) :
        LET o == tree_parent[tree_visited[k].payload]
        IN o \in S => \E j \in 1..(k - 1) : tree_visited[j].payload = o

\* C28: the depth-first traversal of the whole forest calls the callback
\* once for every node, in index order, so every node after its parent; the
\* traversals from an index and from a payload call it once for every node
\* of the start node's branch and for no other node, the start node first.
C28_DepthFirst ==
    /\ tree_called.op = "traverse_depthfirst" =>
          /\ VisitedOnce(DOMAIN tree_parent)
          /\ \A k \in 1..Len(tree_visited) : tree_visited[k].index = k
          /\ ParentVisitedFirst(DOMAIN tree_parent)
    /\ tree_called.op \in {"traverse_depthfirst_at", "traverse_depthfirst_from"} =>
          LET start == tree_called.payload
              branch == {start} \cup DescendantsOf(tree_parent, start)
          IN /\ VisitedOnce(branch)
             /\ tree_visited[1].payload = start
             /\ ParentVisitedFirst(branch)

\* a depth-first traversal from a node that has a parent, a child and a later
\* sibling has just visited the node and its child
C28_Witness ==
    /\ tree_called.op = "traverse_depthfirst_from"
    /\ Len(nodes) = 4
    /\ Len(tree_visited) = 2
    /\ tree_visited[1].index = 2
    /\ nodes[4].m_parent_ofs = 3

\* the depth of a payload and the root of its tree in the client's records
DepthOf(x) == Cardinality(AncestorsOf(tree_parent, x))
RootOf(x) ==
    IF tree_parent[x] = NoPayload THEN x
    ELSE CHOOSE a \in AncestorsOf(tree_parent, x) : tree_parent[a] = NoPayload

\* within one tree the calls in tree_visited come parent first, in
\* non-decreasing depth, and the children of a node in storage order
BreadthFirstOrder ==
    \A k \in 1..Len(tree_visited) : \A l \in (k + 1)..Len(tree_visited) :
        LET x == tree_visited[k].payload
            y == tree_visited[l].payload
        IN RootOf(x) = RootOf(y) =>
             /\ DepthOf(x) <= DepthOf(y)
             /\ tree_parent[x] # y
             /\ tree_parent[x] = tree_parent[y] => tree_visited[k].index < tree_visited[l].index

\* C29: the breadth-first traversal from a start node calls the callback
\* once for every node of the start's branch, the start first, every node
\* after its parent, in non-decreasing depth and with the children of a node
\* in storage order; the whole-forest form does so for one root after the
\* other in root order, so it visits every node once and a root first.
C29_BreadthFirst ==
    /\ tree_called.op \in {"traverse_breadthfirst_at", "traverse_breadthfirst_from"} =>
          LET start == tree_called.payload
              branch == {start} \cup DescendantsOf(tree_parent, start)
          IN /\ VisitedOnce(branch)
             /\ tree_visited[1].payload = start
             /\ ParentVisitedFirst(branch)
             /\ BreadthFirstOrder
    /\ tree_called.op = "traverse_breadthfirst" =>
          /\ VisitedOnce(DOMAIN tree_parent)
          /\ ParentVisitedFirst(DOMAIN tree_parent)
          /\ BreadthFirstOrder
          /\ nodes # << >> => tree_parent[tree_visited[1].payload] = NoPayload
          /\ \A k \in 1..Len(tree_visited) : \A l \in (k + 1)..Len(tree_visited) :
                find_node_index(nodes, RootOf(tree_visited[k].payload))
                    <= find_node_index(nodes, RootOf(tree_visited[l].payload))

\* a breadth-first traversal has just visited a root, its two children and
\* then the child of the first of them, which is stored between the two
C29_Witness ==
    /\ tree_called.op = "traverse_breadthfirst_at"
    /\ Len(nodes) = 4
    /\ nodes[1].m_nbr_children = 2
    /\ nodes[2].m_nbr_children = 1
    /\ Len(tree_visited) = 4
    /\ tree_visited[3].index = 4
    /\ tree_visited[4].index = 3

\* C30: the progressive traversal of the whole forest calls f once with
\* each node as the processed node, with a null parent for a root and with
\* the node's parent otherwise, and the call that processes a node comes
\* before every call that passes the node as the parent.
C30_Progressive ==
    tree_called.op = "traverse_progressive" =>
        /\ VisitedOnce(DOMAIN tree_parent)
        /\ \A k \in 1..Len(tree_visited) :
              /\ tree_visited[k].parent = tree_parent[tree_visited[k].payload]
              /\ tree_visited[k].parent # NoPayload =>
                    \E j \in 1..(k - 1) : tree_visited[j].payload = tree_visited[k].parent

\* a progressive traversal has just gone over two trees: a root with a child
\* and a grandchild, and a single root
C30_Witness ==
    /\ tree_called.op = "traverse_progressive"
    /\ Len(tree_visited) = 4
    /\ tree_visited[1].parent = NoPayload
    /\ tree_visited[2].parent = tree_visited[1].payload
    /\ tree_visited[3].parent = tree_visited[2].payload
    /\ tree_visited[4].parent = NoPayload

\* the calls in tree_visited without their level
WithoutLevel == [k \in 1..Len(tree_visited) |->
                    Visit(tree_visited[k].payload, tree_visited[k].index)]

\* C31: the depth-first traversal with level calls back on the same nodes in
\* the same order as the one without level, and the level passed for a node
\* is the number of parent steps from the node up to the start node (for the
\* whole-forest form: up to the root of its tree).
C31_DepthFirstLevel ==
    /\ tree_called.op = "traverse_depthfirst_level" =>
          /\ WithoutLevel = traverse_depthfirst_all(nodes, 1)
          /\ \A k \in 1..Len(tree_visited) :
                tree_visited[k].level = DepthOf(tree_visited[k].payload)
    /\ tree_called.op = "traverse_depthfirst_level_at" =>
          /\ WithoutLevel
                = traverse_depthfirst_at(nodes, find_node_index(nodes, tree_called.payload))
          /\ \A k \in 1..Len(tree_visited) :
                tree_visited[k].level
                    = DepthOf(tree_visited[k].payload) - DepthOf(tree_called.payload)
    /\ tree_called.op = "traverse_depthfirst_level_from" =>
          /\ WithoutLevel = traverse_depthfirst_from(nodes, tree_called.payload)
          /\ \A k \in 1..Len(tree_visited) :
                tree_visited[k].level
                    = DepthOf(tree_visited[k].payload) - DepthOf(tree_called.payload)

\* a levelled traversal from a root has just visited the root, its first
\* child, that child's child and then its second child
C31_Witness ==
    /\ tree_called.op = "traverse_depthfirst_level_from"
    /\ Len(tree_visited) = 4
    /\ tree_visited[1].level = 0
    /\ tree_visited[3].level = 2
    /\ tree_visited[4].level = 1

\* the positions the children loop reaches from the node at i, and where it
\* stands after the last step
ChildWalk(i) == child_indices(nodes, i + 1, nodes[i].m_nbr_children)
ChildWalkEnd(i) ==
    IF ChildWalk(i) = << >> THEN i + 1
    ELSE ChildWalk(i)[Len(ChildWalk(i))]
            + nodes[ChildWalk(i)[Len(ChildWalk(i))]].m_branch_stride

\* C32: for every node i the children count is the number of nodes whose
\* parent is i, and starting at i+1 and stepping that many times by the
\* stride of the node reached visits exactly those nodes, in increasing
\* position, and ends at i + branch_stride(i).
C32_ChildrenEnumeration ==
    \A i \in 1..Len(nodes) :
        LET children == { j \in 1..Len(nodes) :
                            tree_parent[nodes[j].m_payload] = nodes[i].m_payload }
        IN /\ nodes[i].m_nbr_children = Cardinality(children)
           /\ children = ChildrenAt(i)
           /\ Len(ChildWalk(i)) = Cardinality(children)
           /\ { ChildWalk(i)[k] : k \in 1..Len(ChildWalk(i)) } = children
           /\ \A k \in 1..(Len(ChildWalk(i)) - 1) : ChildWalk(i)[k] < ChildWalk(i)[k + 1]
           /\ ChildWalkEnd(i) = i + nodes[i].m_branch_stride

\* a reparent has just left a root with two children, the first of them
\* with a child of its own: the walk from the root steps 2, 4 and ends at 5
C32_Witness ==
    /\ tree_called.op = "reparent"
    /\ Len(nodes) = 4
    /\ ChildWalk(1) = << 2, 4 >>
    /\ ChildWalkEnd(1) = 5

\* C33: reparent(p, q) with p and q in the forest and q not a descendant of
\* p (q = p included) leaves size() and the set of payloads in the forest
\* unchanged.
C33_ReparentKeepsNodes ==
    [][ tree_called'.op = "reparent" =>
          /\ Len(nodes') = Len(nodes)
          /\ PayloadsIn(nodes') = PayloadsIn(nodes)
      ]_vars

\* C34: is_last_sibling of a node returns true exactly when the node has
\* no following sibling: for a non-root, no later child of the same parent;
\* for a root, no later root.
C34_IsLastSibling ==
    tree_called.op = "is_last_sibling" =>
        (tree_called.result <=>
            ~ \E j \in (IndexOf(tree_called.payload) + 1)..Len(nodes) :
                tree_parent[nodes[j].m_payload] = tree_parent[tree_called.payload])

\* the same for the nodes that have a parent
C34_IsLastSiblingOfChild ==
    (tree_called.op = "is_last_sibling" /\ tree_parent[tree_called.payload] # NoPayload) =>
        (tree_called.result <=>
            ~ \E j \in (IndexOf(tree_called.payload) + 1)..Len(nodes) :
                tree_parent[nodes[j].m_payload] = tree_parent[tree_called.payload])

\* C35: is_descendant_of(a, b) is true exactly when b is a proper ancestor
\* of a: b # a and b is on the chain ascend visits from a (a, its parent, ...,
\* its root); it is false for a = b, for siblings and for nodes of different
\* trees.
C35_IsDescendantOf ==
    tree_called.op = "is_descendant_of" =>
        LET a == tree_called.payload
            b == tree_called.parent
            chain == { nodes[ascend(nodes, IndexOf(a))[k]].m_payload :
                         k \in 1..Len(ascend(nodes, IndexOf(a))) }
        IN /\ tree_called.result <=> (b # a /\ b \in chain)
           /\ tree_called.result <=> b \in AncestorsOf(tree_parent, a)
           /\ chain = {a} \cup AncestorsOf(tree_parent, a)
           /\ a = b => ~tree_called.result
           /\ (a # b /\ tree_parent[a] = tree_parent[b]) => ~tree_called.result
           /\ RootOf(a) # RootOf(b) => ~tree_called.result

\* is_descendant_of has just returned true for a node and the parent of its
\* parent, in a forest that also holds another tree
C35_Witness ==
    /\ tree_called.op = "is_descendant_of"
    /\ tree_called.result
    /\ Len(nodes) = 4
    /\ tree_parent[tree_called.payload] # NoPayload
    /\ tree_parent[tree_parent[tree_called.payload]] = tree_called.parent
    /\ nodes[4].m_parent_ofs = 0

\* the offsets from `from` up to the capacity c, in ascending order
Ascending(from, c) == [k \in 1..((c - from) \div ElemSize) |-> from + (k - 1) * ElemSize]

\* no slot has been given back so far: the live objects fill the lowest
\* offsets and the free-list is the rest in ascending order
Pristine(p, handles) ==
    /\ { h.ofs : h \in handles } = Offsets(Cardinality(handles) * ElemSize)
    /\ freelist_visitor(p) = Ascending(Cardinality(handles) * ElemSize, capacity(p))

\* C36: the pool grows only in a create that finds the free-list empty, and
\* then every slot is live; right after the grow the free-list is the new
\* slots in ascending order with m_free_first at the first new offset, which
\* is the offset the create returns; so as long as no destroy intervenes the
\* k-th create returns offset (k-1) * element size.
C36_GrowOrder ==
    /\ Pristine(pool, live)
    /\ [][ /\ capacity(pool') # capacity(pool) =>
                /\ last'.op = "create"
                /\ pool.m_free_first = m_index_null
                /\ freelist_visitor(pool) = << >>
                /\ LiveOffsets = Offsets(capacity(pool))
                /\ expand(pool).m_free_first = capacity(pool)
                /\ freelist_visitor(expand(pool)) = Ascending(capacity(pool), capacity(pool'))
                /\ last'.ofs = capacity(pool)
                /\ freelist_visitor(pool')
                      = Ascending(capacity(pool) + ElemSize, capacity(pool'))
           /\ (last'.op = "create" /\ Pristine(pool, live)) =>
                /\ last'.ofs = Cardinality(live) * ElemSize
                /\ Pristine(pool', live') ]_vars

\* the fourth create in a row has just returned offset 3 * ElemSize of a pool
\* that grew 0 -> 1 -> 2 -> 4 slots; the only destructor calls were those of
\* the three objects moved by the two migrations, so no destroy intervened
C36_Witness ==
    /\ last.op = "create"
    /\ last.ofs = 3 * ElemSize
    /\ pool.destructions = 3
    /\ Pristine(pool, live)
    /\ Cardinality(live) = 4

(***************************************************************************)
(* Threads sharing one ResourcePool. Every public member function starts   *)
(* with std::lock_guard lock(m_mutex) on the pool's std::mutex; the calls  *)
(* it makes into m_pool take the slab's std::recursive_mutex. rp_pc[t] is   *)
(* "idle" outside a call, "lock" in the lock_guard constructor, "body"     *)
(* after it, "m_pool" inside a member function of m_pool.                   *)
(***************************************************************************)
\* rp_op[t] outside a call
NoCall == [op |-> "none", h |-> NullHandle]

\* the member functions the threads call
PoolOps == {"add", "get", "remove", "retain", "release", "use_count", "valid", "for_each"}

\* std::mutex::lock by thread t: it blocks while the mutex is owned, by t
\* itself too (a std::mutex is not recursive)
mutex_lock(owner, t) == owner = NoThread

\* thread t calls a member function of the pool and reaches its lock_guard;
\* nothing depends on which function and which handle before the mutex is
\* taken, so they are recorded by L_Lock
L_Call(t) ==
    /\ rp_pc[t] = "idle"
    /\ rp_pc' = [rp_pc EXCEPT ![t] = "lock"]
    /\ UNCHANGED << rp_mutex, rp_op, slab_vars, thread_vars, rp_vars,
                    align_vars, reg_vars, tree_vars, tp_vars >>

\* std::lock_guard lock(m_mutex) at the head of op(h); the threads stop
\* adding after MaxLockAdds adds and take no more than MaxRefs references
\* to an object
L_Lock(t, op, h) ==
    /\ rp_pc[t] = "lock"
    /\ op \in {"add", "for_each"} => h = NullHandle
    /\ op = "add" => Cardinality(issued) < MaxLockAdds
    /\ op = "retain" => use_count(rp, h) < MaxRefs
    /\ mutex_lock(rp_mutex, t)
    /\ rp_mutex' = t
    /\ rp_pc' = [rp_pc EXCEPT ![t] = "body"]
    /\ rp_op' = [rp_op EXCEPT ![t] = [op |-> op, h |-> h]]
    /\ UNCHANGED << slab_vars, thread_vars, rp_vars, align_vars, reg_vars, tree_vars, tp_vars >>

\* the member function up to its call into m_pool, or to its return when it
\* makes none; lock's destructor unlocks the pool mutex at the return. A
\* release that called the public remove would be at remove's lock_guard.
L_Body(t) ==
    /\ rp_pc[t] = "body"
    /\ LET op == rp_op[t].op
           h == rp_op[t].h
       IN IF calls_m_pool(rp, op, h)
          THEN IF op = "release" /\ release_callee(h) = "remove"
               THEN /\ rp_pc' = [rp_pc EXCEPT ![t] = "lock"]
                    /\ UNCHANGED << rp_mutex, rp_op, m_mutex, rp >>
               ELSE /\ lock_guard(m_mutex, t)
                    /\ m_mutex' = t
                    /\ rp_pc' = [rp_pc EXCEPT ![t] = "m_pool"]
                    /\ UNCHANGED << rp_mutex, rp_op, rp >>
          ELSE /\ rp' = rp_after(rp, op, h, NextValue)
               /\ rp_mutex' = NoThread
               /\ rp_pc' = [rp_pc EXCEPT ![t] = "idle"]
               /\ rp_op' = [rp_op EXCEPT ![t] = NoCall]
               /\ UNCHANGED m_mutex
    /\ UNCHANGED << issued, alive, called, slab_vars, pc, index, iter,
                    align_vars, reg_vars, tree_vars, tp_vars >>

\* the call into m_pool and the rest of the member function: the slab mutex
\* is unlocked when m_pool's function returns, the pool mutex at the return
L_Pool(t) ==
    /\ rp_pc[t] = "m_pool"
    /\ LET op == rp_op[t].op
           h == rp_op[t].h
           v == NextValue
           r == [ofs |-> add_handle(rp, v).ofs,
                 version |-> add_handle(rp, v).version, value |-> v]
       IN /\ rp' = rp_after(rp, op, h, v)
          /\ issued' = IF op = "add" THEN issued \cup {r} ELSE issued
    /\ m_mutex' = NoThread
    /\ rp_mutex' = NoThread
    /\ rp_pc' = [rp_pc EXCEPT ![t] = "idle"]
    /\ rp_op' = [rp_op EXCEPT ![t] = NoCall]
    /\ UNCHANGED << alive, called, slab_vars, pc, index, iter,
                    align_vars, reg_vars, tree_vars, tp_vars >>

NextLocks ==
    \/ \E t \in Threads : L_Call(t)
    \/ \E t \in Threads, op \in PoolOps, h \in HandleInputs : L_Lock(t, op, h)
    \/ \E t \in Threads : L_Body(t)
    \/ \E t \in Threads : L_Pool(t)

\* a thread that can take a step of its call takes it, and a thread waiting
\* for a mutex that is unlocked again and again gets it
SpecLocks ==
    /\ Init
    /\ [][NextLocks]_vars
    /\ \A t \in Threads :
          /\ WF_vars(L_Body(t))
          /\ WF_vars(L_Pool(t))
          /\ SF_vars(\E op \in PoolOps, h \in HandleInputs : L_Lock(t, op, h))

C38_GuidMapsInverse ==
    \A g \in Guids : \A h \in HandleInputs \ {NullHandle} :
        find_by_guid(rp, g) = h <=> guid_of(rp, h) = g

(***************************************************************************)
(* ThreadPool: thread_count workers run the constructor's lambda; the       *)
(* owner queues tasks and then destroys the pool. workers[w] is "lock" at   *)
(* the unique_lock constructor (and when cv.wait takes the mutex again),    *)
(* "locked" inside cv.wait with the mutex, "wait" blocked in cv.wait        *)
(* without it, "run" at task(), "exited" after the return.                  *)
(***************************************************************************)
\* the local `task` of a worker that holds none
NoTask == 0

\* the predicate of cv.wait
wait_pred(queue, stopped) == queue # << >> \/ stopped

\* ThreadPool(thread_count), thread_count from 0 (which is what
\* std::thread::hardware_concurrency() returns when it cannot tell) upwards
TP_Construct(thread_count) ==
    /\ tp_pc = "none"
    /\ workers' = [w \in 1..thread_count |-> "lock"]
    /\ task' = [w \in 1..thread_count |-> NoTask]
    /\ tp_pc' = "open"
    /\ UNCHANGED << task_queue, queue_mutex, stop, tp_runs, tp_finished,
                    slab_vars, thread_vars, rp_vars, align_vars, reg_vars, tree_vars,
                    lock_vars >>

\* queue_task(task) up to the end of the lock_guard's scope; the tasks are
\* numbered in the order they are queued
TP_QueueTask ==
    /\ tp_pc = "open"
    /\ Len(tp_runs) < MaxTasks
    /\ mutex_lock(queue_mutex, NoThread)
    /\ task_queue' = Append(task_queue, Len(tp_runs) + 1)
    /\ tp_runs' = Append(tp_runs, 0)
    /\ tp_pc' = "notify_one"
    /\ UNCHANGED << workers, queue_mutex, stop, task, tp_finished,
                    slab_vars, thread_vars, rp_vars, align_vars, reg_vars, tree_vars,
                    lock_vars >>

\* queue_task: cv.notify_one() wakes one of the workers blocked in cv.wait
TP_NotifyOne ==
    /\ tp_pc = "notify_one"
    /\ IF \E w \in DOMAIN workers : workers[w] = "wait"
       THEN \E w \in DOMAIN workers :
               /\ workers[w] = "wait"
               /\ workers' = [workers EXCEPT ![w] = "lock"]
       ELSE UNCHANGED workers
    /\ tp_pc' = "open"
    /\ UNCHANGED << task_queue, queue_mutex, stop, task, tp_runs, tp_finished,
                    slab_vars, thread_vars, rp_vars, align_vars, reg_vars, tree_vars,
                    lock_vars >>

\* ~ThreadPool(): stop = true under the lock_guard
TP_Stop ==
    /\ tp_pc = "open"
    /\ mutex_lock(queue_mutex, NoThread)
    /\ stop' = TRUE
    /\ tp_pc' = "notify_all"
    /\ UNCHANGED << workers, task_queue, queue_mutex, task, tp_runs, tp_finished,
                    slab_vars, thread_vars, rp_vars, align_vars, reg_vars, tree_vars,
                    lock_vars >>

\* ~ThreadPool(): cv.notify_all() wakes every worker blocked in cv.wait
TP_NotifyAll ==
    /\ tp_pc = "notify_all"
    /\ workers' = [w \in DOMAIN workers |->
                     IF workers[w] = "wait" THEN "lock" ELSE workers[w]]
    /\ tp_pc' = "join"
    /\ UNCHANGED << task_queue, queue_mutex, stop, task, tp_runs, tp_finished,
                    slab_vars, thread_vars, rp_vars, align_vars, reg_vars, tree_vars,
                    lock_vars >>

\* ~ThreadPool(): the loop of worker.join() ends when every worker has
\* returned from its lambda
TP_Join ==
    /\ tp_pc = "join"
    /\ \A w \in DOMAIN workers : workers[w] = "exited"
    /\ tp_pc' = "done"
    /\ UNCHANGED << workers, task_queue, queue_mutex, stop, task, tp_runs, tp_finished,
                    slab_vars, thread_vars, rp_vars, align_vars, reg_vars, tree_vars,
                    lock_vars >>

\* worker w: std::unique_lock lock(queue_mutex), or cv.wait locking again
W_Lock(w) ==
    /\ workers[w] = "lock"
    /\ mutex_lock(queue_mutex, w)
    /\ queue_mutex' = w
    /\ workers' = [workers EXCEPT ![w] = "locked"]
    /\ UNCHANGED << task_queue, stop, task, tp_pc, tp_runs, tp_finished,
                    slab_vars, thread_vars, rp_vars, align_vars, reg_vars, tree_vars,
                    lock_vars >>

\* worker w with the mutex: cv.wait blocks and unlocks while its predicate
\* is false; otherwise the worker returns when stop is set and the queue is
\* empty, or else pops the front task; the unique_lock unlocks at the end of
\* its scope
W_Wait(w) ==
    /\ workers[w] = "locked"
    /\ queue_mutex' = NoThread
    /\ IF ~wait_pred(task_queue, stop)
       THEN /\ workers' = [workers EXCEPT ![w] = "wait"]
            /\ UNCHANGED << task_queue, task, tp_runs >>
       ELSE IF stop /\ task_queue = << >>
       THEN /\ workers' = [workers EXCEPT ![w] = "exited"]
            /\ UNCHANGED << task_queue, task, tp_runs >>
       ELSE /\ task' = [task EXCEPT ![w] = Head(task_queue)]
            /\ task_queue' = Tail(task_queue)
            /\ tp_runs' = [tp_runs EXCEPT ![Head(task_queue)] = @ + 1]
            /\ workers' = [workers EXCEPT ![w] = "run"]
    /\ UNCHANGED << stop, tp_pc, tp_finished,
                    slab_vars, thread_vars, rp_vars, align_vars, reg_vars, tree_vars,
                    lock_vars >>

\* worker w blocked in cv.wait wakes up without a notification, which a
\* std::condition_variable may do
W_Spurious(w) ==
    /\ workers[w] = "wait"
    /\ workers' = [workers EXCEPT ![w] = "lock"]
    /\ UNCHANGED << task_queue, queue_mutex, stop, task, tp_pc, tp_runs, tp_finished,
                    slab_vars, thread_vars, rp_vars, align_vars, reg_vars, tree_vars,
                    lock_vars >>

\* worker w: task() runs to its end (or throws, which the worker catches) and
\* the loop starts over
W_Task(w) ==
    /\ workers[w] = "run"
    /\ tp_finished' = tp_finished \cup {task[w]}
    /\ task' = [task EXCEPT ![w] = NoTask]
    /\ workers' = [workers EXCEPT ![w] = "lock"]
    /\ UNCHANGED << task_queue, queue_mutex, stop, tp_pc, tp_runs,
                    slab_vars, thread_vars, rp_vars, align_vars, reg_vars, tree_vars,
                    lock_vars >>

NextThreadPool ==
    \/ \E thread_count \in 0..NThreads : TP_Construct(thread_count)
    \/ TP_QueueTask
    \/ TP_NotifyOne
    \/ TP_Stop
    \/ TP_NotifyAll
    \/ TP_Join
    \/ \E w \in DOMAIN workers : W_Lock(w)
    \/ \E w \in DOMAIN workers : W_Wait(w)
    \/ \E w \in DOMAIN workers : W_Spurious(w)
    \/ \E w \in DOMAIN workers : W_Task(w)

SpecThreadPool == Init /\ [][NextThreadPool]_vars

\* the tasks queued so far
Queued == DOMAIN tp_runs

\* when the destructor has returned, every task queued before it started has
\* been run exactly once, to its end, and every worker has exited; no task
\* is ever started twice, and a worker has exited only with stop set and the
\* queue empty
Drained ==
    /\ \A i \in Queued : tp_runs[i] <= 1
    /\ \A w \in DOMAIN workers :
          workers[w] = "exited" => stop /\ task_queue = << >>
    /\ tp_pc = "done" =>
          /\ \A i \in Queued : tp_runs[i] = 1 /\ i \in tp_finished
          /\ \A w \in DOMAIN workers : workers[w] = "exited"

\* C39: ThreadPool drains before shutdown: every task submitted with
\* queue_task before the destructor starts is executed exactly once by
\* exactly one worker, and the destructor returns only after all such tasks
\* have finished and every worker thread has exited; a worker exits only
\* when stop is set and the queue is empty.
C39_DrainsBeforeShutdown == Drained

\* the same for the pools that have a worker: it holds
C39_DrainsWithWorkers == Len(workers) >= 1 => Drained

\* C40: after any sequence of create, destroy of live handles and grow,
\* m_free_first is m_index_null exactly when m_free_last is, and following
\* the links from m_free_first visits every free slot once, never a live
\* slot and never a slot twice, and ends at m_free_last, whose link is
\* m_index_null; so the walks of count_free and used_visitor end.
C40_FreelistStructure ==
    LET walk == freelist_visitor(pool)
    IN /\ pool.m_free_first = m_index_null <=> pool.m_free_last = m_index_null
       /\ \A j, k \in 1..Len(walk) : j # k => walk[j] # walk[k]
       /\ SeqToSet(walk) = Offsets(capacity(pool)) \ LiveOffsets
       /\ \A k \in 1..Len(walk) : pool.m_pool[walk[k]].tag = "free"
       /\ walk = << >> <=> pool.m_free_first = m_index_null
       /\ walk # << >> =>
             /\ walk[Len(walk)] = pool.m_free_last
             /\ val_at(pool.m_pool, pool.m_free_last) = m_index_null

\* a create has just taken the only free slot of a grown pool, after a
\* destroy and a grow had both put slots on the free-list: the list is empty
\* again and all four slots are live
C40_Witness ==
    /\ last.op = "create"
    /\ pool.m_free_first = m_index_null
    /\ pool.m_free_last = m_index_null
    /\ capacity(pool) = 4 * ElemSize
    /\ pool.destructions >= 4
    /\ Cardinality(live) = 4

====
